---- MODULE Spec2Model ----
(***************************************************************************)
(* The chat-completion endpoints of reki-bets (src/api.py and              *)
(* src/agent1/api.py): the tool-call orchestration loop of                 *)
(* chat_completions / stream_generator, the tool registry AVAILABLE_TOOLS, *)
(* the module-level caches and the upstream sports-API client.             *)
(*                                                                         *)
(* One deployment (one of the two api modules) is chosen in Init.  A       *)
(* request is handled from idle to idle; its history (messages sent        *)
(* upstream, SSE events, executed tools) is kept until the next request    *)
(* overwrites it, while the module-level state persists across requests.   *)
(***************************************************************************)
EXTENDS Integers, Sequences, FiniteSets, TLC

\* ------------------------------------------------------------------ bounds
MaxChunks == 2          \* chunks of the model's initial response (Spec)
MaxCalls == 1           \* tool calls opened by one initial response
MaxFinalChunks == 1     \* chunks of the model's second response
MaxLongMsgs == 11       \* request bodies of 0..MaxLongMsgs messages (SpecLong)
MaxLongChunks == 1      \* chunks of the model's initial response (SpecLong)
MaxToolCalls == 2       \* tool calls of one initial response (SpecTools)
MaxKeys == 1            \* dates a cached fetcher is asked for, besides one more
MaxOverrun == 1         \* hours the clock runs on after a TTL has passed
MaxDays == 2            \* calendar days the scheduler is followed over
MaxLead == 120          \* the scheduler starts up to MaxLead s before 10:56:00
MaxOversleep == 1       \* seconds by which one sleep(60) may overrun
MaxJobSeconds == 2      \* seconds run_daily_research may take
MaxUiChunks == 2        \* chunks of one response streamed to the Streamlit UI
MaxPrompts == 2         \* prompts entered in one Streamlit session
MaxUpdates == 2         \* text messages sent to the Telegram bot
MaxDeltas == 3          \* tool-call deltas of one streamed response
MaxIssued == 2          \* tool calls issued by that response
MaxRequests == 3        \* calls of SportRadarClient._make_request
MaxJobRuns == 3         \* invocations of run_daily_research

\* Spec: every request carries one message, as the Telegram front end sends it.
\* SpecLong: request bodies of every length up to MaxLongMsgs.
ShortBodies == {1}
LongBodies == 0..MaxLongMsgs

\* ------------------------------------------------------- program constants
HistoryLimit == 10      \* messages[-10:]
TARGET_HOUR == 10       \* scheduler.py
TARGET_MINUTE == 56
SleepSeconds == 60      \* time.sleep(60)

Endpoints == {"agent1", "root"}

\* The keys of AVAILABLE_TOOLS; a registered callable is named by its key.
Agent1ToolNames ==
    {"get_nfl_current_week_schedule", "find_nfl_game_by_teams_and_date",
     "get_nfl_game_statistics", "get_nfl_game_roster", "get_nfl_team_season_stats",
     "get_nba_daily_schedule", "get_nba_daily_injuries", "get_nba_game_summary",
     "get_nba_seasonal_stats", "get_nba_teams_list", "clear_caches"}

RootToolNames ==
    {"get_current_week_schedule", "get_game_statistics", "get_game_roster",
     "get_daily_schedule", "get_daily_injuries", "get_game_summary",
     "get_daily_schedule_odds"}

ToolRegistry(ep) ==
    IF ep = "agent1" THEN [n \in Agent1ToolNames |-> n] ELSE [n \in RootToolNames |-> n]

\* Function names the upstream model puts in its tool calls: registered ones of
\* each behaviour (plain fetch, TTL-cached fetch, cache-filling, cache-clearing)
\* and one name that is no key of the registry.
AskedNames(ep) ==
    IF ep = "agent1"
    THEN {"get_nba_daily_schedule", "get_nfl_game_statistics",
          "get_nfl_current_week_schedule", "clear_caches", "get_weather"}
    ELSE {"get_daily_schedule", "get_game_statistics", "get_weather"}

\* Functions wrapped by @cached(schedule_cache) in the deployed modules.
TtlCached(fn) == fn \in {"get_nfl_current_week_schedule", "get_daily_schedule"}

\* Argument strings are sequences of fragments; "a" "b" stands for the text of
\* a complete JSON object.  The first delta of a call carries no argument text
\* or all of it; a continuation delta carries the text.
ArgStartFragments == {<< >>, <<"a", "b">>}
ArgContFragments == {<<"a", "b">>}

VARIABLES
    endpoint,             \* which api module is deployed
    AVAILABLE_TOOLS,      \* the module-level registry (a mutable dict)
    NBA_SCHEDULE_CACHE,   \* agent1: [has |-> "games" in dict, games |-> list]
    NBA_TEAMS_CACHE,      \* agent1: [has |-> "teams" in dict, teams |-> list]
    schedule_cache,       \* the TTLCache of the deployed schedule fetcher
    pc,                   \* position of the request handler / generator
    mode,                 \* how the last request was answered
    body,                 \* request.messages of the current request
    cacheAtAccept,        \* NBA_SCHEDULE_CACHE when the request was accepted
    messages,             \* the local list `messages`
    upstream,             \* message lists sent to the model, one per call
    chunks1,              \* chunks received from the initial stream
    tool_calls,           \* accumulated tool-call deltas
    initial_content_chunks, \* agent1: indexes of the collected content chunks
    full_tool_calls,      \* reconstructed tool calls
    tcIdx,                \* position of the tool loop in full_tool_calls
    executed,             \* tool functions executed for this request
    finalChunks,          \* chunks received from the second stream
    events,               \* SSE events yielded to the client
    raised,               \* what raised into the generator's except clause
    nsToolRequested       \* stream=false: the returned response holds tool calls

\* The TTL-cached fetchers under a clock (src/agent1/nfl.py, src/nba.py,
\* src/odds.py).
VARIABLES
    clock,                \* the cache timer, in hours since the process started
    fetcher,              \* the @cached function that is called
    links,                \* the TTLCache: its live and stale entries, oldest use first
    last_call,            \* what the last call of the fetcher did
    stored_at,            \* per argument tuple: hour of its last upstream fetch
    evicted               \* argument tuples dropped for size since their last fetch

\* The scheduler process (src/agent2/scheduler.py).
VARIABLES
    sched_pc,             \* main(): "off", or "loop" at the head of `while True`
    wall_clock,           \* local time, in seconds since midnight of day 0
    last_run_date,        \* the local of main(); -1 is None
    job_runs              \* invocations of run_daily_research

\* The Streamlit front end (src/ui.py), one browser session.
VARIABLES
    ui_pc,                \* the script run: "idle", "post", "text", "tool", "crashed"
    session_messages,     \* st.session_state.messages
    ui_base,              \* len(st.session_state.messages) when the prompt came
    ui_streams            \* chunks of each response received for the prompt

\* The Telegram bot (src/agent1/telegram_bot.py), one chat.
VARIABLES
    tg_pc,                \* the handler chat(): "idle", "post", "parse", "raised"
    tg_response,          \* what requests.post gave: an exception or a JSON body
    tg_requests,          \* requests sent to the proxy for the current update
    tg_sent               \* per update: the texts sent to the chat with send_message

\* Tool-call reconstruction taken alone (src/api.py, src/agent1/api.py, src/main.py).
VARIABLES
    rc_deltas,            \* the tool-call deltas of a streamed response, as received
    rc_proxy,             \* what the endpoints' reconstruction made of them
    rc_cli                \* what the command-line agent's accumulation made of them

\* SportRadarClient._make_request taken alone (src/client.py).
VARIABLES
    mr_results            \* per call: what the upstream did and what the call gave

\* The team statistics tools taken alone (src/nfl.py, src/agent1/nfl.py).
VARIABLES
    team_identifier,      \* the argument the tool is called with
    team_stats            \* per module: what the call did, once it was made

\* run_daily_research taken alone (src/agent2/scheduler.py).
VARIABLES
    job_pc,               \* run_daily_research: "idle", or about to post "news", "betting"
    job_posts             \* per invocation: the POSTs sent and how each was answered

chatVars == <<endpoint, AVAILABLE_TOOLS, NBA_SCHEDULE_CACHE, NBA_TEAMS_CACHE,
              schedule_cache, pc, mode, body, cacheAtAccept, messages, upstream,
              chunks1, tool_calls, initial_content_chunks, full_tool_calls, tcIdx,
              executed, finalChunks, events, raised, nsToolRequested>>

ttlVars == <<clock, fetcher, links, last_call, stored_at, evicted>>

\* Everything outside the chat endpoint.
schedVars == <<sched_pc, wall_clock, last_run_date, job_runs>>

uiVars == <<ui_pc, session_messages, ui_base, ui_streams>>

tgVars == <<tg_pc, tg_response, tg_requests, tg_sent>>

rcVars == <<rc_deltas, rc_proxy, rc_cli>>

mrVars == <<mr_results>>

teamVars == <<team_identifier, team_stats>>

jobVars == <<job_pc, job_posts>>

moreVars == <<mrVars, teamVars, jobVars>>

sideVars == <<ttlVars, schedVars, uiVars, tgVars, rcVars, moreVars>>

\* What the steps of one component leave alone.
exceptTtl == <<chatVars, schedVars, uiVars, tgVars, rcVars, moreVars>>

exceptSched == <<chatVars, ttlVars, uiVars, tgVars, rcVars, moreVars>>

exceptUi == <<chatVars, ttlVars, schedVars, tgVars, rcVars, moreVars>>

exceptTg == <<chatVars, ttlVars, schedVars, uiVars, rcVars, moreVars>>

exceptRc == <<chatVars, ttlVars, schedVars, uiVars, tgVars, moreVars>>

firstVars == <<chatVars, ttlVars, schedVars, uiVars, tgVars, rcVars>>

vars == <<chatVars, sideVars>>

moduleVars == <<endpoint, AVAILABLE_TOOLS, NBA_SCHEDULE_CACHE, NBA_TEAMS_CACHE,
                schedule_cache>>

\* ----------------------------------------------------------------- helpers
Range(s) == {s[i] : i \in 1..Len(s)}

Max(a, b) == IF a >= b THEN a ELSE b

Min(a, b) == IF a <= b THEN a ELSE b

\* The i-th message of a request body: alternating user / assistant turns.
RequestMessage(i) ==
    [role |-> IF i % 2 = 1 THEN "user" ELSE "assistant",
     content |-> <<ToString(i)>>, tool_call_id |-> 0, name |-> "",
     tool_calls |-> << >>]

RequestBody(n) == [i \in 1..n |-> RequestMessage(i)]

EmptyCache == [has |-> FALSE, games |-> << >>]

EmptyTeams == [has |-> FALSE, teams |-> << >>]

\* s[:k]
FirstSlice(s, k) == SubSeq(s, 1, Min(k, Len(s)))

\* s[-k:]
LastSlice(s, k) == SubSeq(s, Max(1, Len(s) - k + 1), Len(s))

\* The system prompt without the cached schedule.
SystemPromptNoCache(ep, cache) ==
    IF ep = "agent1"
    THEN <<"system_prompt.txt", "current_date", "sports_state.json">>
    ELSE <<"system_prompt.txt", "current_date">>

\* The system prompt text: the prompt files, then (agent1) the cached schedule.
SystemPrompt(ep, cache) ==
    IF ep = "agent1"
    THEN <<"system_prompt.txt", "current_date", "sports_state.json">>
         \o (IF cache.has /\ cache.games # << >>
             THEN <<"last NBA schedule">> \o cache.games
             ELSE << >>)
    ELSE <<"system_prompt.txt", "current_date">>

SystemMessage(ep, cache) ==
    [role |-> "system", content |-> SystemPrompt(ep, cache), tool_call_id |-> 0,
     name |-> "", tool_calls |-> << >>]

\* messages = [system] + request.messages[-10:]
BuildMessages(ep, cache, msgs) ==
    <<SystemMessage(ep, cache)>> \o LastSlice(msgs, HistoryLimit)

\* The chat endpoint after the module has been imported.
ChatInit ==
    /\ endpoint \in Endpoints
    /\ AVAILABLE_TOOLS = ToolRegistry(endpoint)
    /\ NBA_SCHEDULE_CACHE = EmptyCache
    /\ NBA_TEAMS_CACHE = EmptyTeams
    /\ schedule_cache = << >>
    /\ pc = "idle"
    /\ mode = "none"
    /\ body = << >>
    /\ cacheAtAccept = EmptyCache
    /\ messages = << >>
    /\ upstream = << >>
    /\ chunks1 = << >>
    /\ tool_calls = << >>
    /\ initial_content_chunks = << >>
    /\ full_tool_calls = << >>
    /\ tcIdx = 0
    /\ executed = << >>
    /\ finalChunks = << >>
    /\ events = << >>
    /\ raised = "none"
    /\ nsToolRequested = FALSE

NoCall == [made |-> FALSE, key |-> 0, hit |-> FALSE, http |-> 0, value |-> 0,
           at |-> 0, prev |-> -1, dropped |-> FALSE, live |-> 0, popped |-> {}]

\* No fetcher has been called: its cache is empty.
TtlIdle ==
    /\ clock = 0
    /\ fetcher = "none"
    /\ links = << >>
    /\ last_call = NoCall
    /\ stored_at = << >>
    /\ evicted = {}

\* The scheduler has not been started.
SchedIdle ==
    /\ sched_pc = "off"
    /\ wall_clock = 0
    /\ last_run_date = -1
    /\ job_runs = << >>

UiMessage(role, content) == [role |-> role, content |-> content]

\* initialize_session_state() of the first script run: the welcome message.
UiInit ==
    /\ ui_pc = "idle"
    /\ session_messages = <<UiMessage("assistant", <<"Welcome">>)>>
    /\ ui_base = 0
    /\ ui_streams = << >>

NoResponse == [kind |-> "none", hasChoices |-> FALSE, choices |-> << >>]

\* The bot is polling and no update has come.
TgInit ==
    /\ tg_pc = "idle"
    /\ tg_response = NoResponse
    /\ tg_requests = 0
    /\ tg_sent = << >>

Pending == [done |-> FALSE, ok |-> TRUE, calls |-> << >>]

\* No response has been received.
RcIdle ==
    /\ rc_deltas = << >>
    /\ rc_proxy = Pending
    /\ rc_cli = Pending

\* A string as the team tools read it: its text in lower case (a sequence of
\* words), the letter case it is written in, what uuid.UUID finds once urn
\* prefix, braces and hyphens are stripped, and how it was wrapped.
Str(words, casing, shape, wrap) ==
    [words |-> words, casing |-> casing, shape |-> shape, wrap |-> wrap]

NoString == Str(<< >>, "lower", "text", "plain")

NotCalled == [called |-> FALSE, requests |-> 0, raised |-> FALSE,
              status |-> "", team_id |-> NoString]

\* Every component but the named one as it is before it is used.
OthersIdle(component) ==
    /\ IF component = "client" THEN TRUE ELSE mr_results = << >>
    /\ IF component = "teams" THEN TRUE
       ELSE team_identifier = NoString /\ team_stats = [agent1 |-> NotCalled, root |-> NotCalled]
    /\ IF component = "job" THEN TRUE
       ELSE job_pc = "idle" /\ job_posts = << >>
    /\ IF component = "ttl" THEN TRUE ELSE TtlIdle
    /\ IF component = "scheduler" THEN TRUE ELSE SchedIdle
    /\ IF component = "ui" THEN TRUE ELSE UiInit
    /\ IF component = "telegram" THEN TRUE ELSE TgInit
    /\ IF component = "reconstruction" THEN TRUE ELSE RcIdle

Init ==
    /\ ChatInit
    /\ OthersIdle("chat")

\* Every per-request variable as a new request finds it.
FreshRequest(m, b, msgs) ==
    /\ mode' = m
    /\ body' = b
    /\ cacheAtAccept' = IF m = "none" THEN EmptyCache ELSE NBA_SCHEDULE_CACHE
    /\ messages' = msgs
    /\ chunks1' = << >>
    /\ tool_calls' = << >>
    /\ initial_content_chunks' = << >>
    /\ full_tool_calls' = << >>
    /\ tcIdx' = 0
    /\ executed' = << >>
    /\ finalChunks' = << >>
    /\ events' = << >>
    /\ raised' = "none"

\* chat_completions returns a JSONResponse before any model call: unknown model
\* (agent1, 400) or a missing prompt file (500).
RejectRequest(lengths) ==
    /\ pc = "idle"
    /\ \E n \in lengths, why \in {"model", "prompt"} :
         /\ why = "model" => endpoint = "agent1"
         /\ FreshRequest("rejected", RequestBody(n), << >>)
    /\ upstream' = << >>
    /\ nsToolRequested' = FALSE
    /\ pc' = "done"
    /\ UNCHANGED <<sideVars, moduleVars>>

\* chat_completions with stream=true: builds messages and returns the
\* StreamingResponse over stream_generator().
AcceptStream(lengths) ==
    /\ pc = "idle"
    /\ \E n \in lengths :
         FreshRequest("stream", RequestBody(n),
                      BuildMessages(endpoint, NBA_SCHEDULE_CACHE, RequestBody(n)))
    /\ upstream' = << >>
    /\ nsToolRequested' = FALSE
    /\ pc' = "start"
    /\ UNCHANGED <<sideVars, moduleVars>>

\* chat_completions with stream=false: one model call, its response (or a 500
\* JSONResponse when the call raises) is returned as is.
NonStreamRequest(lengths) ==
    /\ pc = "idle"
    /\ \E n \in lengths, ok \in BOOLEAN, tc \in BOOLEAN :
         /\ FreshRequest(IF ok THEN "nonstream" ELSE "nonstream_error",
                         RequestBody(n),
                         BuildMessages(endpoint, NBA_SCHEDULE_CACHE, RequestBody(n)))
         /\ upstream' = <<BuildMessages(endpoint, NBA_SCHEDULE_CACHE, RequestBody(n))>>
         /\ nsToolRequested' = (ok /\ tc)
    /\ pc' = "done"
    /\ UNCHANGED <<sideVars, moduleVars>>

\* The response has been delivered; the handler's locals are dropped and the
\* process waits for the next request.
CloseRequest ==
    /\ pc = "done"
    /\ FreshRequest("none", << >>, << >>)
    /\ upstream' = << >>
    /\ nsToolRequested' = FALSE
    /\ pc' = "idle"
    /\ UNCHANGED <<sideVars, moduleVars>>

\* -------------------------------------------------- the upstream sports API
NoData == [status |-> "raw", detail |-> "", hasGames |-> FALSE, games |-> << >>,
           hasTeams |-> FALSE, teams |-> << >>]

\* An error converted into a result that reports no error.
ErrorDictOk(d) == [NoData EXCEPT !.detail = d]

ErrorDict(d) == [NoData EXCEPT !.status = "error", !.detail = d]

\* What the upstream API answers to one GET: a failure (network error, non-2xx
\* status, API error code) or a body; a schedule body may list games.
ToolOutcomes(fn) ==
    IF fn = "clear_caches" THEN {"ok", "raise"}
    ELSE IF fn = "get_nba_daily_schedule" THEN {"g1", "g2", "nogames", "fail", "raise"}
    ELSE IF fn = "get_nba_teams_list" THEN {"t1", "noteams", "fail", "raise"}
    ELSE {"ok", "fail", "raise"}

Payload(o) ==
    IF o \in {"g1", "g2"}
    THEN [NoData EXCEPT !.hasGames = TRUE, !.games = <<o>>]
    ELSE IF o = "t1"
    THEN [NoData EXCEPT !.hasTeams = TRUE, !.teams = <<o>>]
    ELSE NoData

\* _make_request with one retry after a failure.
MakeRequestRetry(o) ==
    [http |-> IF o = "fail" THEN 2 ELSE 1,
     resp |-> IF o = "fail" THEN ErrorDict("message") ELSE Payload(o)]

\* SportRadarClient._make_request: one requests.get; a failure is returned as
\* an error dictionary, a body is returned as is.
MakeRequest(o) ==
    [http |-> 1,
     resp |-> IF o = "fail" THEN ErrorDict("message") ELSE Payload(o)]

\* The fetchers of src/nfl.py and src/nba.py: one requests.get, the body wrapped
\* as {"status": "ok", "data": ...}, a failure as {"status": "error", ...}.
RootFetch(o) ==
    [http |-> 1,
     resp |-> IF o = "fail" THEN ErrorDict("error") ELSE [NoData EXCEPT !.status = "ok"]]

Fetch(ep, o) == IF ep = "agent1" THEN MakeRequest(o) ELSE RootFetch(o)

\* cachetools.cached(schedule_cache): a stored value is returned without a
\* call; otherwise the function runs and its value (an error dictionary too)
\* is stored.
CachedFetch(ep, o, cache) ==
    IF cache # << >>
    THEN [http |-> 0, resp |-> cache[1], cache |-> cache]
    ELSE [http |-> Fetch(ep, o).http, resp |-> Fetch(ep, o).resp,
          cache |-> <<Fetch(ep, o).resp>>]

\* A clear_caches that empties the TTL cache as well.
clear_everything(games, teams, ttl) ==
    [games |-> EmptyCache, teams |-> EmptyTeams, ttl |-> << >>]

\* clear_caches(): NBA_SCHEDULE_CACHE.clear(); NBA_TEAMS_CACHE.clear().  The
\* TTLCache of the schedule fetcher is not among them.
clear_caches(games, teams, ttl) ==
    [games |-> EmptyCache, teams |-> EmptyTeams, ttl |-> ttl]

\* One call of a registered function: function_to_call(**function_args).
\* "raise" is the call raising (arguments that do not fit the signature).
RunTool(ep, fn, o, cache) ==
    IF o = "raise"
    THEN [raised |-> TRUE, http |-> 0, resp |-> NoData, cache |-> cache]
    ELSE IF fn = "clear_caches"
    THEN [raised |-> FALSE, http |-> 0,
          resp |-> [NoData EXCEPT !.status = "Caches cleared successfully."],
          cache |-> cache]
    ELSE IF TtlCached(fn)
    THEN [raised |-> FALSE, http |-> CachedFetch(ep, o, cache).http,
          resp |-> CachedFetch(ep, o, cache).resp,
          cache |-> CachedFetch(ep, o, cache).cache]
    ELSE [raised |-> FALSE, http |-> Fetch(ep, o).http, resp |-> Fetch(ep, o).resp,
          cache |-> cache]

\* json.dumps(function_response)
Dumps(resp) ==
    <<resp.status>> \o (IF resp.detail # "" THEN <<resp.detail>> ELSE << >>)
    \o (IF resp.hasGames THEN <<"games">> \o resp.games ELSE << >>)
    \o (IF resp.hasTeams THEN <<"teams">> \o resp.teams ELSE << >>)

\* json.loads(arguments) succeeds on a complete object only.
JsonValid(arguments) == arguments = <<"a", "b">>

\* ------------------------------------------------------- the tool registry
\* A lookup that falls back to some registered function.
LookupWithDefault(registry, function_name) ==
    IF function_name \in DOMAIN registry THEN registry[function_name]
    ELSE registry[CHOOSE n \in DOMAIN registry : TRUE]

\* A lookup that finds nothing.
LookupNone(registry, function_name) == "None"

\* AVAILABLE_TOOLS.get(function_name); "None" when the name is no key.
Lookup(registry, function_name) ==
    IF function_name \in DOMAIN registry THEN registry[function_name] ELSE "None"

\* ------------------------------------------------ the initial model response
NoDelta == << >>

Started(tcs) == Cardinality({i \in 1..Len(tcs) : tcs[i].id # 0})

\* The chunks the model may send next: an empty delta (role or finish chunk),
\* a content delta, the first delta of a new tool call (with its id and name)
\* or a continuation delta (no id) carrying further argument text.
InitialChunkChoices(ep, tcs) ==
    {[content |-> c, deltas |-> NoDelta] : c \in BOOLEAN}
    \cup {[content |-> FALSE,
           deltas |-> <<[id |-> Started(tcs) + 1, name |-> nm, arguments |-> a,
                         index |-> Started(tcs)]>>] :
            nm \in IF Started(tcs) < MaxCalls THEN AskedNames(ep) ELSE {},
            a \in ArgStartFragments}
    \cup {[content |-> FALSE,
           deltas |-> <<[id |-> 0, name |-> "", arguments |-> a,
                         index |-> Max(Started(tcs) - 1, 0)]>>] :
            a \in ArgContFragments}

\* tool_calls.extend(chunk.choices[0].delta.tool_calls)
ExtendToolCalls(tcs, chunk) == tcs \o chunk.deltas

\* Keeping every chunk.
CollectAll(collected, chunk, i) == Append(collected, i)

\* agent1 keeps the chunks whose delta has content.
CollectContent(collected, chunk, i) ==
    IF chunk.content THEN Append(collected, i) ELSE collected

ChunkEvent(src, i) == [type |-> "chunk", src |-> src, idx |-> i, text |-> ""]

MarkerEvent(m) == [type |-> m, src |-> 0, idx |-> 0, text |-> ""]

\* The exception text sent bare.
ErrorEventBare(e) == [type |-> "text", src |-> 0, idx |-> 0, text |-> e]

\* json.dumps({"error": str(e)})
ErrorEvent(e) == [type |-> "error", src |-> 0, idx |-> 0, text |-> e]

\* What the loop over the initial stream yields for the i-th chunk: the root
\* endpoint yields every chunk as it arrives, agent1 yields nothing yet.
YieldOnReceive(ep, i) == IF ep = "root" THEN <<ChunkEvent(1, i)>> ELSE << >>

\* Reconstruction of the full tool calls from the deltas: a delta with an id
\* opens an entry, argument text is appended to the last entry; ok is FALSE
\* when argument text arrives before any entry (full_tool_calls[-1] raises).
RECURSIVE Reconstruct(_, _)
Reconstruct(tcs, full) ==
    IF tcs = << >> THEN [ok |-> TRUE, calls |-> full]
    ELSE LET tc == Head(tcs)
             opened == IF tc.id # 0
                       THEN Append(full, [id |-> tc.id, name |-> tc.name,
                                          arguments |-> << >>])
                       ELSE full
         IN  IF tc.arguments # << >>
             THEN IF opened = << >>
                  THEN [ok |-> FALSE, calls |-> opened]
                  ELSE Reconstruct(Tail(tcs),
                         [opened EXCEPT ![Len(opened)].arguments = @ \o tc.arguments])
             ELSE Reconstruct(Tail(tcs), opened)

\* An assistant message that lists the first tool call only.
AssistantMessageFirstOnly(calls) ==
    [role |-> "assistant", content |-> << >>, tool_call_id |-> 0, name |-> "",
     tool_calls |-> SubSeq(calls, 1, 1)]

AssistantMessage(calls) ==
    [role |-> "assistant", content |-> << >>, tool_call_id |-> 0, name |-> "",
     tool_calls |-> calls]

ToolMessage(call, function_name, resp) ==
    [role |-> "tool", content |-> Dumps(resp), tool_call_id |-> call.id,
     name |-> function_name, tool_calls |-> << >>]

\* agent1, after a get_nba_daily_schedule call returned: the cache is cleared
\* and refilled from the response's games, when it has any.
UpdateScheduleCache(function_name, resp, cache) ==
    IF function_name = "get_nba_daily_schedule"
    THEN IF resp.hasGames THEN [has |-> TRUE, games |-> resp.games] ELSE EmptyCache
    ELSE cache

UpdateTeamsCache(function_name, resp, cache) ==
    IF function_name = "get_nba_teams_list"
    THEN IF resp.hasTeams THEN [has |-> TRUE, teams |-> resp.teams] ELSE EmptyTeams
    ELSE cache

\* A generator that goes round again when the second response asks for tools.
AfterFinalStreamLoops(sawToolCalls) == IF sawToolCalls THEN "tools" ELSE "finally"

\* Where the generator goes when the second stream is exhausted.
AfterFinalStream(sawToolCalls) == "finally"

\* ------------------------------------------------------- stream_generator
\* yield "data: [STREAM_STARTED]"
StreamStarted ==
    /\ pc = "start"
    /\ events' = Append(events, MarkerEvent("STREAM_STARTED"))
    /\ pc' = "call1"
    /\ UNCHANGED <<sideVars, moduleVars, mode, body, cacheAtAccept, messages, upstream,
                   chunks1, tool_calls, initial_content_chunks, full_tool_calls,
                   tcIdx, executed, finalChunks, raised, nsToolRequested>>

\* initial_stream = client.chat.completions.create(...): returns or raises.
InitialCall ==
    /\ pc = "call1"
    /\ upstream' = Append(upstream, messages)
    /\ \E ok \in BOOLEAN :
         /\ pc' = IF ok THEN "recv1" ELSE "except"
         /\ raised' = IF ok THEN raised ELSE "model call failed"
    /\ UNCHANGED <<sideVars, moduleVars, mode, body, cacheAtAccept, messages, chunks1,
                   tool_calls, initial_content_chunks, full_tool_calls, tcIdx,
                   executed, finalChunks, events, nsToolRequested>>

\* The body of `for chunk in initial_stream` for one chunk.
ReceiveChunk(chunk) ==
    /\ chunks1' = Append(chunks1, chunk)
    /\ tool_calls' = ExtendToolCalls(tool_calls, chunk)
    /\ initial_content_chunks' =
         IF endpoint = "agent1"
         THEN CollectContent(initial_content_chunks, chunk, Len(chunks1) + 1)
         ELSE initial_content_chunks
    /\ events' = events \o YieldOnReceive(endpoint, Len(chunks1) + 1)
    /\ UNCHANGED <<sideVars, moduleVars, pc, mode, body, cacheAtAccept, messages,
                   upstream, full_tool_calls, tcIdx, executed, finalChunks, raised,
                   nsToolRequested>>

\* One iteration of `for chunk in initial_stream`.
RecvInitialChunk(maxChunks) ==
    /\ pc = "recv1"
    /\ Len(chunks1) < maxChunks
    /\ \E chunk \in InitialChunkChoices(endpoint, tool_calls) : ReceiveChunk(chunk)

\* The initial stream raises while it is iterated.
InitialStreamRaises ==
    /\ pc = "recv1"
    /\ pc' = "except"
    /\ raised' = "stream failed"
    /\ UNCHANGED <<sideVars, moduleVars, mode, body, cacheAtAccept, messages, upstream,
                   chunks1, tool_calls, initial_content_chunks, full_tool_calls,
                   tcIdx, executed, finalChunks, events, nsToolRequested>>

\* The initial stream is exhausted: with tool calls they are reconstructed and
\* the assistant message is appended; without, agent1 goes on to yield the
\* collected content chunks and the root generator is finished.
InitialStreamEnds ==
    /\ pc = "recv1"
    /\ IF tool_calls # << >>
       THEN LET r == Reconstruct(tool_calls, << >>)
            IN  IF r.ok
                THEN /\ full_tool_calls' = r.calls
                     /\ messages' = Append(messages, AssistantMessage(r.calls))
                     /\ pc' = "tools"
                     /\ raised' = raised
                ELSE /\ pc' = "except"
                     /\ raised' = "list index out of range"
                     /\ UNCHANGED <<full_tool_calls, messages>>
       ELSE /\ pc' = IF endpoint = "agent1" /\ initial_content_chunks # << >>
                     THEN "emit" ELSE "finally"
            /\ UNCHANGED <<full_tool_calls, messages, raised>>
    /\ UNCHANGED <<sideVars, moduleVars, mode, body, cacheAtAccept, upstream, chunks1,
                   tool_calls, initial_content_chunks, tcIdx, executed,
                   finalChunks, events, nsToolRequested>>

\* agent1, no tool calls: `for chunk in initial_content_chunks: yield ...`
EmitInitialChunk ==
    /\ pc = "emit"
    /\ LET k == Len(events)   \* events so far: the marker and k - 1 chunks
       IN  /\ events' = Append(events, ChunkEvent(1, initial_content_chunks[k]))
           /\ pc' = IF k = Len(initial_content_chunks) THEN "finally" ELSE "emit"
    /\ UNCHANGED <<sideVars, moduleVars, mode, body, cacheAtAccept, messages, upstream,
                   chunks1, tool_calls, initial_content_chunks, full_tool_calls,
                   tcIdx, executed, finalChunks, raised, nsToolRequested>>

\* One iteration of `for tool_call in full_tool_calls`.
ExecuteTool ==
    /\ pc = "tools"
    /\ tcIdx < Len(full_tool_calls)
    /\ LET call == full_tool_calls[tcIdx + 1]
           function_name == call.name
           function_to_call == Lookup(AVAILABLE_TOOLS, function_name)
       IN  IF function_to_call = "None"
           THEN \* continue
                /\ tcIdx' = tcIdx + 1
                /\ UNCHANGED <<NBA_SCHEDULE_CACHE, NBA_TEAMS_CACHE, schedule_cache,
                               pc, messages, executed, raised>>
           ELSE IF ~JsonValid(call.arguments)
           THEN \* json.loads raises
                IF endpoint = "agent1"
                THEN /\ messages' = Append(messages,
                          ToolMessage(call, function_name, ErrorDict("json error")))
                     /\ tcIdx' = tcIdx + 1
                     /\ UNCHANGED <<NBA_SCHEDULE_CACHE, NBA_TEAMS_CACHE,
                                    schedule_cache, pc, executed, raised>>
                ELSE /\ pc' = "except"
                     /\ raised' = "json error"
                     /\ UNCHANGED <<NBA_SCHEDULE_CACHE, NBA_TEAMS_CACHE,
                                    schedule_cache, messages, executed, tcIdx>>
           ELSE \E o \in ToolOutcomes(function_to_call) :
                  LET r == RunTool(endpoint, function_to_call, o, schedule_cache)
                      cleared == function_to_call = "clear_caches" /\ ~r.raised
                  IN  /\ executed' = Append(executed,
                            [call |-> tcIdx + 1, fn |-> function_to_call,
                             http |-> r.http, failed |-> r.resp.status = "error",
                             calls |-> Len(upstream), raised |-> r.raised])
                      /\ schedule_cache' =
                           IF cleared
                           THEN clear_caches(NBA_SCHEDULE_CACHE, NBA_TEAMS_CACHE,
                                             r.cache).ttl
                           ELSE r.cache
                      /\ IF r.raised
                         THEN IF endpoint = "agent1"
                              THEN /\ messages' = Append(messages,
                                        ToolMessage(call, function_name,
                                                    ErrorDict("tool raised")))
                                   /\ tcIdx' = tcIdx + 1
                                   /\ UNCHANGED <<NBA_SCHEDULE_CACHE,
                                                  NBA_TEAMS_CACHE, pc, raised>>
                              ELSE /\ pc' = "except"
                                   /\ raised' = "tool raised"
                                   /\ UNCHANGED <<NBA_SCHEDULE_CACHE,
                                                  NBA_TEAMS_CACHE, messages, tcIdx>>
                         ELSE /\ NBA_SCHEDULE_CACHE' =
                                   IF endpoint # "agent1" THEN NBA_SCHEDULE_CACHE
                                   ELSE IF cleared
                                   THEN clear_caches(NBA_SCHEDULE_CACHE,
                                                     NBA_TEAMS_CACHE, r.cache).games
                                   ELSE UpdateScheduleCache(function_name, r.resp,
                                                            NBA_SCHEDULE_CACHE)
                              /\ NBA_TEAMS_CACHE' =
                                   IF endpoint # "agent1" THEN NBA_TEAMS_CACHE
                                   ELSE IF cleared
                                   THEN clear_caches(NBA_SCHEDULE_CACHE,
                                                     NBA_TEAMS_CACHE, r.cache).teams
                                   ELSE UpdateTeamsCache(function_name, r.resp,
                                                         NBA_TEAMS_CACHE)
                              /\ messages' = Append(messages,
                                   ToolMessage(call, function_name, r.resp))
                              /\ tcIdx' = tcIdx + 1
                              /\ UNCHANGED <<pc, raised>>
    /\ UNCHANGED <<sideVars, endpoint, AVAILABLE_TOOLS, mode, body, cacheAtAccept, upstream,
                   chunks1, tool_calls, initial_content_chunks, full_tool_calls,
                   finalChunks, events, nsToolRequested>>

\* final_response_stream = client.chat.completions.create(...)
FinalCall ==
    /\ pc = "tools"
    /\ tcIdx = Len(full_tool_calls)
    /\ upstream' = Append(upstream, messages)
    /\ \E ok \in BOOLEAN :
         /\ pc' = IF ok THEN "recv2" ELSE "except"
         /\ raised' = IF ok THEN raised ELSE "model call failed"
    /\ UNCHANGED <<sideVars, moduleVars, mode, body, cacheAtAccept, messages, chunks1,
                   tool_calls, initial_content_chunks, full_tool_calls, tcIdx,
                   executed, finalChunks, events, nsToolRequested>>

\* One iteration of `for chunk in final_response_stream: yield ...`; the chunk
\* may itself carry tool calls.
RecvFinalChunk ==
    /\ pc = "recv2"
    /\ Len(finalChunks) < MaxFinalChunks
    /\ \E kind \in {"content", "tool_calls"} :
         finalChunks' = Append(finalChunks, kind)
    /\ events' = Append(events, ChunkEvent(2, Len(finalChunks) + 1))
    /\ UNCHANGED <<sideVars, moduleVars, pc, mode, body, cacheAtAccept, messages, upstream,
                   chunks1, tool_calls, initial_content_chunks, full_tool_calls,
                   tcIdx, executed, raised, nsToolRequested>>

FinalStreamRaises ==
    /\ pc = "recv2"
    /\ pc' = "except"
    /\ raised' = "stream failed"
    /\ UNCHANGED <<sideVars, moduleVars, mode, body, cacheAtAccept, messages, upstream,
                   chunks1, tool_calls, initial_content_chunks, full_tool_calls,
                   tcIdx, executed, finalChunks, events, nsToolRequested>>

FinalStreamEnds ==
    /\ pc = "recv2"
    /\ pc' = AfterFinalStream("tool_calls" \in Range(finalChunks))
    /\ UNCHANGED <<sideVars, moduleVars, mode, body, cacheAtAccept, messages, upstream,
                   chunks1, tool_calls, initial_content_chunks, full_tool_calls,
                   tcIdx, executed, finalChunks, events, raised, nsToolRequested>>

\* An except clause that yields nothing.
HandleExceptionSilent ==
    /\ pc = "except"
    /\ pc' = "finally"
    /\ UNCHANGED <<sideVars, moduleVars, mode, body, cacheAtAccept, messages, upstream,
                   chunks1, tool_calls, initial_content_chunks, full_tool_calls,
                   tcIdx, executed, finalChunks, events, raised, nsToolRequested>>

\* An except clause after which the generator returns without its finally.
HandleExceptionReturns ==
    /\ pc = "except"
    /\ events' = Append(events, ErrorEvent(raised))
    /\ pc' = "done"
    /\ UNCHANGED <<sideVars, moduleVars, mode, body, cacheAtAccept, messages, upstream,
                   chunks1, tool_calls, initial_content_chunks, full_tool_calls,
                   tcIdx, executed, finalChunks, raised, nsToolRequested>>

\* except Exception as e: yield the error object
HandleException ==
    /\ pc = "except"
    /\ events' = Append(events, ErrorEvent(raised))
    /\ pc' = "finally"
    /\ UNCHANGED <<sideVars, moduleVars, mode, body, cacheAtAccept, messages, upstream,
                   chunks1, tool_calls, initial_content_chunks, full_tool_calls,
                   tcIdx, executed, finalChunks, raised, nsToolRequested>>

\* finally: yield "data: [DONE]"
Finally ==
    /\ pc = "finally"
    /\ events' = Append(events, MarkerEvent("DONE"))
    /\ pc' = "done"
    /\ UNCHANGED <<sideVars, moduleVars, mode, body, cacheAtAccept, messages, upstream,
                   chunks1, tool_calls, initial_content_chunks, full_tool_calls,
                   tcIdx, executed, finalChunks, raised, nsToolRequested>>

\* The TTL of the stored schedule runs out between two requests.
ExpireScheduleCache ==
    /\ pc = "idle"
    /\ schedule_cache # << >>
    /\ schedule_cache' = << >>
    /\ UNCHANGED <<sideVars, endpoint, AVAILABLE_TOOLS, NBA_SCHEDULE_CACHE, NBA_TEAMS_CACHE,
                   pc, mode, body, cacheAtAccept, messages, upstream, chunks1,
                   tool_calls, initial_content_chunks, full_tool_calls, tcIdx,
                   executed, finalChunks, events, raised, nsToolRequested>>

Generator ==
    \/ StreamStarted
    \/ InitialCall
    \/ InitialStreamRaises
    \/ InitialStreamEnds
    \/ EmitInitialChunk
    \/ ExecuteTool
    \/ FinalCall
    \/ RecvFinalChunk
    \/ FinalStreamRaises
    \/ FinalStreamEnds
    \/ HandleException
    \/ Finally
    \/ CloseRequest
    \/ ExpireScheduleCache

Next ==
    \/ RejectRequest(ShortBodies)
    \/ AcceptStream(ShortBodies)
    \/ NonStreamRequest(ShortBodies)
    \/ RecvInitialChunk(MaxChunks)
    \/ Generator

NextLong ==
    \/ RejectRequest(LongBodies)
    \/ AcceptStream(LongBodies)
    \/ NonStreamRequest(LongBodies)
    \/ RecvInitialChunk(MaxLongChunks)
    \/ Generator

Spec == Init /\ [][Next]_vars

SpecLong == Init /\ [][NextLong]_vars

\* ============================== one request with several tool calls
\* Function names of the tool calls of an initial response that asks for up to
\* MaxToolCalls tools: the cache-filling functions, the TTL-cached one,
\* clear_caches, and one name that is no key of the registry.
ToolNames(ep) ==
    IF ep = "agent1"
    THEN {"get_nba_daily_schedule", "get_nba_teams_list",
          "get_nfl_current_week_schedule", "clear_caches", "get_weather"}
    ELSE {"get_daily_schedule", "get_game_statistics", "get_weather"}

\* A chunk that carries one whole tool call: its id, its name and its argument
\* text (complete, or empty).
ToolChunkChoices(ep, tcs) ==
    {[content |-> FALSE,
      deltas |-> <<[id |-> Started(tcs) + 1, name |-> nm, arguments |-> a,
                    index |-> Started(tcs)]>>] :
       nm \in ToolNames(ep), a \in ArgStartFragments}

\* One iteration of `for chunk in initial_stream`, the chunk carrying a tool call.
RecvToolChunk ==
    /\ pc = "recv1"
    /\ Len(chunks1) < MaxToolCalls
    /\ \E chunk \in ToolChunkChoices(endpoint, tool_calls) : ReceiveChunk(chunk)

\* A single streaming request to a newly started process.
NextTools ==
    \/ AcceptStream(ShortBodies)
    \/ StreamStarted
    \/ InitialCall
    \/ RecvToolChunk
    \/ InitialStreamRaises
    \/ InitialStreamEnds
    \/ ExecuteTool
    \/ FinalCall
    \/ RecvFinalChunk
    \/ FinalStreamRaises
    \/ FinalStreamEnds
    \/ HandleException
    \/ Finally

SpecTools == Init /\ [][NextTools]_vars

\* The tool loop and the second create() call are straight-line code with no
\* yield in between: once the loop is entered, the generator goes on.
SpecToolsFair == SpecTools /\ WF_vars(ExecuteTool) /\ WF_vars(FinalCall)

\* ================================================ the TTL-cached fetchers
\* The functions wrapped by @cached(TTLCache(maxsize, ttl)).
Fetchers ==
    {"get_nfl_current_week_schedule", "get_daily_schedule", "get_daily_schedule_odds"}

\* ttl of the fetcher's TTLCache, in hours (86400 s, 43200 s, 3600 s).
Ttl(f) ==
    IF f = "get_nfl_current_week_schedule" THEN 24
    ELSE IF f = "get_daily_schedule" THEN 12
    ELSE 1

\* maxsize of the fetcher's TTLCache.
MaxSize(f) ==
    IF f = "get_nfl_current_week_schedule" THEN 10
    ELSE IF f = "get_daily_schedule" THEN 128
    ELSE 256

\* The module the fetcher is deployed with.
DeployedWith(f) == IF f = "get_nfl_current_week_schedule" THEN "agent1" ELSE "root"

\* Argument tuples the fetcher is called with: get_nfl_current_week_schedule
\* takes no argument (one tuple); the others are asked for the first MaxKeys
\* dates and for one date beyond the cache's capacity.
AskedKeys(f) ==
    IF f = "get_nfl_current_week_schedule" THEN {1}
    ELSE (1..MaxKeys) \cup {MaxSize(f) + 1}

Link(k, t, f, v) == [key |-> k, expires |-> t + Ttl(f), value |-> v]

\* The cache after the first MaxSize(f) dates have been looked up, in order,
\* within the process's first hour.
WarmLinks(f) == [k \in 1..MaxSize(f) |-> Link(k, 0, f, 0)]

\* TTLCache.expire(time): drops the entries with expires <= time.
Expire(ls, t) ==
    LET Fresh(e) == t < e.expires
    IN  SelectSeq(ls, Fresh)

Without(ls, k) ==
    LET Other(e) == e.key # k
    IN  SelectSeq(ls, Other)

Holds(ls, k) == \E i \in 1..Len(ls) : ls[i].key = k

EntryOf(ls, k) == ls[CHOOSE i \in 1..Len(ls) : ls[i].key = k]

\* A cache that never lets an entry expire.
CacheHitForever(ls, k, t) == Holds(ls, k)

\* TTLCache.__getitem__ finds the key: it is stored and timer() < expires.
CacheHit(ls, k, t) == Holds(ls, k) /\ t < EntryOf(ls, k).expires

\* TTLCache.__getitem__ on a hit: the entry becomes the most recently used.
Touch(ls, k) == Append(Without(ls, k), EntryOf(ls, k))

\* TTLCache.__setitem__: expired entries are dropped, then, for a new key in a
\* full cache, the least recently used one (popitem); the entry is appended.
CacheSet(ls, k, v, t, f) ==
    LET live == Expire(ls, t)
        rest == Without(live, k)
        room == IF ~Holds(live, k) /\ Len(rest) >= MaxSize(f) THEN Tail(rest) ELSE rest
    IN  Append(room, Link(k, t, f, v))

\* The keys __setitem__ drops for size although they have not expired.
PoppedBySet(ls, k, t, f) ==
    LET live == Expire(ls, t)
    IN  IF ~Holds(live, k) /\ Len(live) >= MaxSize(f) THEN {Head(live).key} ELSE {}

InitTtl ==
    /\ ChatInit
    /\ fetcher \in Fetchers
    /\ endpoint = DeployedWith(fetcher)
    /\ clock = 0
    /\ \E warm \in BOOLEAN :
         /\ warm => fetcher # "get_nfl_current_week_schedule"
         /\ links = IF warm THEN WarmLinks(fetcher) ELSE << >>
         /\ stored_at = [k \in AskedKeys(fetcher) |->
                           IF warm /\ k <= MaxSize(fetcher) THEN 0 ELSE -1]
    /\ last_call = NoCall
    /\ evicted = {}
    /\ OthersIdle("ttl")

\* One call of the wrapped function: cachetools.cached looks the key up and
\* returns the stored value, or runs the function (one upstream request, whose
\* answer changes from hour to hour), stores its value and returns it.
CachedCall ==
    \E k \in AskedKeys(fetcher) :
      IF CacheHit(links, k, clock)
      THEN /\ last_call' = [made |-> TRUE, key |-> k, hit |-> TRUE, http |-> 0,
                            value |-> EntryOf(links, k).value, at |-> clock,
                            prev |-> stored_at[k], dropped |-> k \in evicted,
                            live |-> Len(Expire(links, clock)), popped |-> {}]
           /\ links' = Touch(links, k)
           /\ UNCHANGED <<stored_at, evicted>>
      ELSE /\ last_call' = [made |-> TRUE, key |-> k, hit |-> FALSE, http |-> 1,
                            value |-> clock, at |-> clock, prev |-> stored_at[k],
                            dropped |-> k \in evicted,
                            live |-> Len(Expire(links, clock)),
                            popped |-> PoppedBySet(links, k, clock, fetcher)]
           /\ links' = CacheSet(links, k, clock, clock, fetcher)
           /\ stored_at' = [stored_at EXCEPT ![k] = clock]
           /\ evicted' = (evicted \cup PoppedBySet(links, k, clock, fetcher)) \ {k}

FetcherCalled ==
    /\ CachedCall
    /\ UNCHANGED <<exceptTtl, clock, fetcher>>

\* An hour passes.
HourPasses ==
    /\ clock < Ttl(fetcher) + MaxOverrun
    /\ clock' = clock + 1
    /\ UNCHANGED <<exceptTtl, fetcher, links, last_call,
                   stored_at, evicted>>

NextTtl ==
    \/ FetcherCalled
    \/ HourPasses

SpecTtl == InitTtl /\ [][NextTtl]_vars

\* ======================================================= the scheduler
\* datetime fields of a local time given in seconds since midnight of day 0
\* (10:56 lies far from the hours a daylight-saving change moves).
DateOf(t) == t \div 86400

HourOf(t) == (t % 86400) \div 3600

MinuteOf(t) == (t % 3600) \div 60

\* First second of the target minute of day d, and the first second after it.
TargetStart(d) == d * 86400 + TARGET_HOUR * 3600 + TARGET_MINUTE * 60

TargetEnd(d) == TargetStart(d) + 60

\* A check that looks at the hour only.
IsTargetHour(t, last) == HourOf(t) = TARGET_HOUR /\ DateOf(t) # last

\* The condition of main()'s if statement.
IsTargetTime(t, last) ==
    /\ HourOf(t) = TARGET_HOUR
    /\ MinuteOf(t) = TARGET_MINUTE
    /\ DateOf(t) # last

\* The last second main() is followed to: two minutes past the target minute
\* of the last day.
Horizon == TargetEnd(MaxDays - 1) + 2 * SleepSeconds

\* main() is started on day 0, up to MaxLead seconds before 10:56:00.
InitSched ==
    /\ ChatInit
    /\ endpoint = "agent1"
    /\ OthersIdle("scheduler")
    /\ sched_pc = "loop"
    /\ wall_clock \in (TargetStart(0) - MaxLead)..(TargetStart(0) - 1)
    /\ last_run_date = -1
    /\ job_runs = << >>

\* time.sleep(60): suspends for at least 60 seconds.
SleepUntil(t) == {t + SleepSeconds + over : over \in 0..MaxOversleep}

\* One iteration of `while True` at a time that is not the target time (or on
\* a date the job has run on): the check, then the sleep.
IdleIteration ==
    /\ sched_pc = "loop"
    /\ wall_clock <= Horizon
    /\ LET now_in_tz == wall_clock
       IN  /\ ~IsTargetTime(now_in_tz, last_run_date)
           /\ wall_clock' \in SleepUntil(now_in_tz)
    /\ UNCHANGED <<exceptSched, sched_pc, last_run_date,
                   job_runs>>

\* One iteration at the target time: run_daily_research() returns, having
\* succeeded or having caught its exception, after some seconds;
\* last_run_date = now_in_tz.date(); then the sleep.
JobIteration ==
    /\ sched_pc = "loop"
    /\ wall_clock <= Horizon
    /\ LET now_in_tz == wall_clock
       IN  /\ IsTargetTime(now_in_tz, last_run_date)
           /\ \E ok \in BOOLEAN, took \in 0..MaxJobSeconds :
                /\ job_runs' = Append(job_runs,
                       [date |-> DateOf(now_in_tz), hour |-> HourOf(now_in_tz),
                        minute |-> MinuteOf(now_in_tz), ok |-> ok])
                /\ wall_clock' \in SleepUntil(now_in_tz + took)
           /\ last_run_date' = DateOf(now_in_tz)
    /\ UNCHANGED <<exceptSched, sched_pc>>

NextSched ==
    \/ IdleIteration
    \/ JobIteration

SpecSched == InitSched /\ [][NextSched]_vars

\* ==================================================== the Streamlit UI
\* Chunks the proxy streams: a delta with content, a delta with tool_calls, a
\* delta with neither, and the object {"error": "<text>"} of its except clause.
ProxyChunks == {"text", "tool", "empty", "error"}

\* The data events of one proxy response: [STREAM_STARTED], up to MaxUiChunks
\* chunks of which only the last may be the error object, and [DONE].
RECURSIVE ChunkSeqs(_)
ChunkSeqs(n) ==
    IF n = 0 THEN {<< >>}
    ELSE ChunkSeqs(n - 1)
         \cup {Append(q, c) : q \in {r \in ChunkSeqs(n - 1) : Len(r) = n - 1 /\ "error" \notin Range(r)},
                              c \in ProxyChunks}

ProxyEvents == {<<"[STREAM_STARTED]">> \o q \o <<"[DONE]">> : q \in ChunkSeqs(MaxUiChunks)}

\* json.loads(content) of a data event: the markers are no JSON.
IsJson(event) == event \notin {"[STREAM_STARTED]", "[DONE]"}

\* response_generator(): the parsed chunks of the events received; a failed
\* POST or a broken connection ends them with the generator's own
\* {"error": {"message": ...}} chunk.
response_generator(lines, broken) ==
    SelectSeq(lines, IsJson) \o (IF broken THEN <<"connection error">> ELSE << >>)

\* What the front end may receive for one POST: a whole response, or a prefix
\* of one cut by a connection failure.
Responses ==
    {response_generator(ev, FALSE) : ev \in ProxyEvents}
    \cup {response_generator(SubSeq(ev, 1, n), TRUE) : ev \in ProxyEvents, n \in 0..MaxUiChunks}

\* A front end that never takes the tool branch.
DetectNothing(stream) == FALSE

\* stream_api_response(): is_tool_call, from the first chunk of the stream.
DetectToolCall(stream) == stream # << >> /\ stream[1] = "tool"

\* Reading chunk["error"]["message"]: the generator's own error chunk has it,
\* the proxy's error object holds a string and the subscript raises TypeError.
RECURSIVE ReadChunks(_, _)
ReadChunks(stream, text) ==
    IF stream = << >> THEN [raised |-> FALSE, text |-> text]
    ELSE IF Head(stream) = "error" THEN [raised |-> TRUE, text |-> text]
    ELSE IF Head(stream) = "connection error"
    THEN [raised |-> FALSE, text |-> Append(text, "connection error")]
    ELSE ReadChunks(Tail(stream),
                    IF Head(stream) = "text" THEN Append(text, "text") ELSE text)

\* final_content_generator(): on an error chunk the text collected so far is
\* replaced by the error message.
FinalContent(stream) ==
    IF "connection error" \in Range(stream) /\ ~ReadChunks(stream, << >>).raised
    THEN [raised |-> FALSE, text |-> <<"An error occurred", "connection error">>]
    ELSE ReadChunks(stream, << >>)

InitUi ==
    /\ ChatInit
    /\ endpoint = "root"
    /\ OthersIdle("ui")
    /\ UiInit

UserPrompts == Len(SelectSeq(session_messages, LAMBDA m : m.role = "user"))

\* st.chat_input returns a prompt: the script run appends the user message.
SubmitPrompt ==
    /\ ui_pc \in {"idle", "crashed"}
    /\ UserPrompts < MaxPrompts
    /\ ui_base' = Len(session_messages)
    /\ session_messages' = Append(session_messages, UiMessage("user", <<"prompt">>))
    /\ ui_streams' = << >>
    /\ ui_pc' = "post"
    /\ UNCHANGED exceptUi

\* response_stream, is_tool_call, tool_name = stream_api_response(payload)
FirstRequest ==
    /\ ui_pc = "post"
    /\ \E stream \in Responses :
         /\ ui_streams' = <<stream>>
         /\ ui_pc' = IF DetectToolCall(stream) THEN "tool" ELSE "text"
    /\ UNCHANGED <<exceptUi, session_messages, ui_base>>

\* The else branch: st.write_stream(text_chunk_generator(response_stream)) and
\* the append of the assistant message; an exception ends the script run.
TextReply ==
    /\ ui_pc = "text"
    /\ LET r == ReadChunks(ui_streams[1], << >>)
       IN  IF r.raised
           THEN /\ ui_pc' = "crashed"
                /\ UNCHANGED session_messages
           ELSE /\ ui_pc' = "idle"
                /\ session_messages' =
                     Append(session_messages, UiMessage("assistant", r.text))
    /\ UNCHANGED <<exceptUi, ui_base, ui_streams>>

\* The tool branch: the first stream is consumed, the payload is posted again
\* and the content of the second stream becomes the assistant message.
ToolReply ==
    /\ ui_pc = "tool"
    /\ \E stream \in Responses :
         /\ ui_streams' = Append(ui_streams, stream)
         /\ LET r == FinalContent(stream)
            IN  IF r.raised
                THEN /\ ui_pc' = "crashed"
                     /\ UNCHANGED session_messages
                ELSE /\ ui_pc' = "idle"
                     /\ session_messages' =
                          Append(session_messages, UiMessage("assistant", r.text))
    /\ UNCHANGED <<exceptUi, ui_base>>

NextUi ==
    \/ SubmitPrompt
    \/ FirstRequest
    \/ TextReply
    \/ ToolReply

SpecUi == InitUi /\ [][NextUi]_vars

\* initialize_session_state(): the welcome message is stored only when the
\* session state has no "messages" entry.
initialize_session_state(has_messages, stored) ==
    IF ~has_messages THEN <<UiMessage("assistant", <<"Welcome">>)>> ELSE stored

\* The Clear Chat History button is pressed: the script run it starts calls
\* initialize_session_state() at its top and again under the button, the
\* session holding "messages" since the first run, and then st.rerun().
ClearChatHistory ==
    /\ ui_pc \in {"idle", "crashed"}
    /\ session_messages' =
         initialize_session_state(TRUE, initialize_session_state(TRUE, session_messages))
    /\ ui_streams' = << >>
    /\ ui_pc' = "idle"
    /\ UNCHANGED <<exceptUi, ui_base>>

NextUiSidebar ==
    \/ SubmitPrompt
    \/ FirstRequest
    \/ TextReply
    \/ ToolReply
    \/ ClearChatHistory

SpecUiSidebar == InitUi /\ [][NextUiSidebar]_vars

\* ===================================================== the Telegram bot
\* The "message" entry of a choice: absent, null, or an object with a content
\* (possibly empty) and a list of tool calls (possibly empty or absent).
ChoiceMessages ==
    {[field |-> "missing", content |-> "", tool_calls |-> << >>],
     [field |-> "null", content |-> "", tool_calls |-> << >>],
     [field |-> "object", content |-> "", tool_calls |-> << >>],
     [field |-> "object", content |-> "answer", tool_calls |-> << >>],
     [field |-> "object", content |-> "", tool_calls |-> <<"get_nba_daily_schedule">>],
     [field |-> "object", content |-> "answer", tool_calls |-> <<"get_nba_daily_schedule">>]}

\* What requests.post(API_URL, json=payload) and raise_for_status give: a
\* connection failure, an HTTP error status, or a JSON body with or without a
\* "choices" list.
ProxyResponses ==
    {[kind |-> k, hasChoices |-> FALSE, choices |-> << >>] :
        k \in {"connection failure", "http error", "json"}}
    \cup {[kind |-> "json", hasChoices |-> TRUE, choices |-> << >>]}
    \cup {[kind |-> "json", hasChoices |-> TRUE, choices |-> <<m>>] : m \in ChoiceMessages}

\* api_response.get('choices', [{}])[0].get('message', {}): the subscript
\* raises IndexError on an empty list; a missing field gives {}, a null one
\* gives None.
ExtractMessage(api_response) ==
    LET choices == IF api_response.hasChoices
                   THEN api_response.choices
                   ELSE <<[field |-> "missing", content |-> "", tool_calls |-> << >>]>>
    IN  IF choices = << >>
        THEN [raised |-> "IndexError", message |-> "None"]
        ELSE [raised |-> "none", message |-> choices[1]]

\* The if / elif / else over the message; message.get on None raises
\* AttributeError.
ReplyTo(message) ==
    IF message.field = "null" THEN [raised |-> "AttributeError", text |-> ""]
    ELSE IF message.tool_calls # << >>
    THEN [raised |-> "none", text |-> "Reki is running analysis"]
    ELSE IF message.content # ""
    THEN [raised |-> "none", text |-> message.content]
    ELSE [raised |-> "none", text |-> "Sorry, I couldn't generate a response"]

\* context.bot.send_message(chat_id, text), for the update being handled.
send_message(sent, text) == [sent EXCEPT ![Len(sent)] = Append(@, text)]

InitTelegram ==
    /\ ChatInit
    /\ endpoint = "agent1"
    /\ OthersIdle("telegram")
    /\ TgInit

\* MessageHandler(filters.TEXT & ~filters.COMMAND, chat) is entered.
ReceiveText ==
    /\ tg_pc \in {"idle", "raised"}
    /\ Len(tg_sent) < MaxUpdates
    /\ tg_sent' = Append(tg_sent, << >>)
    /\ tg_requests' = 0
    /\ tg_response' = NoResponse
    /\ tg_pc' = "post"
    /\ UNCHANGED exceptTg

\* requests.post, raise_for_status, response.json(); a RequestException is
\* answered by the first except clause.
PostToProxy ==
    /\ tg_pc = "post"
    /\ tg_requests' = tg_requests + 1
    /\ \E response \in ProxyResponses :
         /\ tg_response' = response
         /\ IF response.kind = "json"
            THEN /\ tg_pc' = "parse"
                 /\ UNCHANGED tg_sent
            ELSE /\ tg_pc' = "idle"
                 /\ tg_sent' = send_message(tg_sent, "Sorry, I'm having trouble connecting")
    /\ UNCHANGED exceptTg

\* The rest of the try block and the second except clause (KeyError,
\* IndexError); any other exception leaves the handler.
AnswerChat ==
    /\ tg_pc = "parse"
    /\ LET got == ExtractMessage(tg_response)
           reply == ReplyTo(got.message)
       IN  IF got.raised = "IndexError"
           THEN /\ tg_sent' = send_message(tg_sent,
                                            "Sorry, I received an unexpected response")
                /\ tg_pc' = "idle"
           ELSE IF reply.raised # "none"
           THEN /\ tg_pc' = "raised"
                /\ UNCHANGED tg_sent
           ELSE /\ tg_sent' = send_message(tg_sent, reply.text)
                /\ tg_pc' = "idle"
    /\ UNCHANGED <<exceptTg, tg_response, tg_requests>>

NextTelegram ==
    \/ ReceiveText
    \/ PostToProxy
    \/ AnswerChat

SpecTelegram == InitTelegram /\ [][NextTelegram]_vars

\* ================================================ tool-call reconstruction
\* The function the model names in its call number i (index i).
IssuedName(i) == IF i = 0 THEN "get_nba_daily_schedule" ELSE "get_nba_teams_list"

\* One tool-call delta: the index of the call it belongs to; the first delta
\* of a call carries the name and, unless the provider leaves it out, the id;
\* every delta may carry a fragment of the argument text.
Deltas ==
    [index : 0..(MaxIssued - 1), id : 0..MaxIssued, name : {IssuedName(i) : i \in 0..(MaxIssued - 1)} \cup {""},
     arguments : {<< >>, <<"a">>, <<"b">>}]

FirstOf(ds, k) == \A j \in 1..(k - 1) : ds[j].index # ds[k].index

\* The delta sequences a model may stream: calls are opened in index order,
\* the first delta of call i names IssuedName(i) and has id i + 1 or none,
\* later deltas of a call have neither; deltas of different calls may
\* interleave.
WellFormed(ds) ==
    \A k \in 1..Len(ds) :
      IF FirstOf(ds, k)
      THEN /\ ds[k].index = Cardinality({ds[j].index : j \in 1..(k - 1)})
           /\ ds[k].name = IssuedName(ds[k].index)
           /\ ds[k].id \in {0, ds[k].index + 1}
      ELSE ds[k].name = "" /\ ds[k].id = 0

RECURSIVE DeltaSeqs(_)
DeltaSeqs(n) ==
    IF n = 0 THEN {<< >>}
    ELSE DeltaSeqs(n - 1)
         \cup {q \in {Append(r, d) : r \in {x \in DeltaSeqs(n - 1) : Len(x) = n - 1},
                                     d \in Deltas} : WellFormed(q)}

\* The accumulation of src/main.py, every chunk carrying one delta: the first
\* chunk's delta becomes the only entry, and the arguments of every later
\* delta, enumerated from 0 within its chunk, are added to entry 0.
RECURSIVE CliAccumulate(_, _)
CliAccumulate(ds, acc) ==
    IF ds = << >> THEN [done |-> TRUE, ok |-> TRUE, calls |-> acc]
    ELSE IF acc = << >>
    THEN CliAccumulate(Tail(ds),
           <<[id |-> Head(ds).id, name |-> Head(ds).name,
              arguments |-> Head(ds).arguments]>>)
    ELSE CliAccumulate(Tail(ds),
           [acc EXCEPT ![1].arguments = @ \o Head(ds).arguments])

InitDeltas ==
    /\ ChatInit
    /\ endpoint = "agent1"
    /\ OthersIdle("reconstruction")
    /\ rc_deltas \in DeltaSeqs(MaxDeltas) \ {<< >>}
    /\ rc_proxy = Pending
    /\ rc_cli = Pending

\* `for tc in tool_calls` of stream_generator, on the deltas collected.
ReconstructInProxy ==
    /\ ~rc_proxy.done
    /\ rc_proxy' = [done |-> TRUE, ok |-> Reconstruct(rc_deltas, << >>).ok,
                    calls |-> Reconstruct(rc_deltas, << >>).calls]
    /\ UNCHANGED <<exceptRc, rc_deltas, rc_cli>>

\* `for chunk in response` of main().
ReconstructInCli ==
    /\ ~rc_cli.done
    /\ rc_cli' = CliAccumulate(rc_deltas, << >>)
    /\ UNCHANGED <<exceptRc, rc_deltas, rc_proxy>>

NextDeltas ==
    \/ ReconstructInProxy
    \/ ReconstructInCli

SpecDeltas == InitDeltas /\ [][NextDeltas]_vars

\* ================================================ SportRadarClient._make_request
\* What the upstream does with one GET.  A body is text that is JSON or not;
\* a JSON body is an object (with or without the pair message/code), a list,
\* or a scalar such as null or a number.
UpstreamOutcomes ==
    {[sent |-> FALSE, http |-> 0, json |-> FALSE, body |-> "connection error"],
     [sent |-> FALSE, http |-> 0, json |-> FALSE, body |-> "timeout"],
     [sent |-> TRUE, http |-> 500, json |-> TRUE, body |-> "object"],
     [sent |-> TRUE, http |-> 404, json |-> FALSE, body |-> "text"],
     [sent |-> TRUE, http |-> 200, json |-> FALSE, body |-> "text"],
     [sent |-> TRUE, http |-> 200, json |-> TRUE, body |-> "object"],
     [sent |-> TRUE, http |-> 200, json |-> TRUE, body |-> "message and code 403"],
     [sent |-> TRUE, http |-> 200, json |-> TRUE, body |-> "message and code 200"],
     [sent |-> TRUE, http |-> 200, json |-> TRUE, body |-> "list"],
     [sent |-> TRUE, http |-> 200, json |-> TRUE, body |-> "null"]}

Returned(status, message) ==
    [raised |-> "none", isDict |-> TRUE, status |-> status, message |-> message]

\* A _make_request whose except clauses let the exception through.
make_request_raising(o) ==
    IF ~o.sent \/ o.http >= 400 \/ ~o.json
    THEN [raised |-> "RequestException", isDict |-> FALSE, status |-> "", message |-> ""]
    ELSE Returned("raw", "")

\* _make_request: requests.get, raise_for_status, response.json(), the test
\* of message and code; RequestException (of which the JSON error of
\* response.json() is a subclass) is returned as an error dictionary.
make_request(o) ==
    IF ~o.sent THEN Returned("error", o.body)
    ELSE IF o.http >= 400 THEN Returned("error", "HTTPError")
    ELSE IF ~o.json THEN Returned("error", "JSONDecodeError")
    ELSE IF o.body \in {"null"}
    THEN \* "message" in data, data no container
         [raised |-> "TypeError", isDict |-> FALSE, status |-> "", message |-> ""]
    ELSE IF o.body = "list"
    THEN [raised |-> "none", isDict |-> FALSE, status |-> "raw", message |-> ""]
    ELSE IF o.body = "message and code 403" THEN Returned("error", "API Error")
    ELSE Returned("raw", "")

InitClient ==
    /\ ChatInit
    /\ endpoint = "agent1"
    /\ OthersIdle("client")
    /\ mr_results = << >>

\* One call of _make_request.
CallMakeRequest ==
    /\ Len(mr_results) < MaxRequests
    /\ \E o \in UpstreamOutcomes :
         mr_results' = Append(mr_results, [upstream |-> o, result |-> make_request(o)])
    /\ UNCHANGED <<firstVars, teamVars, jobVars>>

NextClient == CallMakeRequest

SpecClient == InitClient /\ [][NextClient]_vars

\* ================================================ the team statistics tools
\* NFL_TEAMS of both nfl modules, names in lower case, ids by their first group.
NFL_TEAMS ==
    <<[name |-> <<"san", "francisco", "49ers">>, id |-> "f0e724b0"],
      [name |-> <<"chicago", "bears">>, id |-> "7b112545"],
      [name |-> <<"cincinnati", "bengals">>, id |-> "ad4ae08f"],
      [name |-> <<"buffalo", "bills">>, id |-> "768c92aa"],
      [name |-> <<"denver", "broncos">>, id |-> "ce92bd47"],
      [name |-> <<"cleveland", "browns">>, id |-> "d5a2eb42"],
      [name |-> <<"tampa", "bay", "buccaneers">>, id |-> "4254d319"],
      [name |-> <<"arizona", "cardinals">>, id |-> "de760528"],
      [name |-> <<"los", "angeles", "chargers">>, id |-> "1f6dcffb"],
      [name |-> <<"kansas", "city", "chiefs">>, id |-> "6680d28d"],
      [name |-> <<"indianapolis", "colts">>, id |-> "82cf9565"],
      [name |-> <<"washington", "commanders">>, id |-> "22052ff7"],
      [name |-> <<"dallas", "cowboys">>, id |-> "e627eec7"],
      [name |-> <<"miami", "dolphins">>, id |-> "4809ecb0"],
      [name |-> <<"philadelphia", "eagles">>, id |-> "386bdbf9"],
      [name |-> <<"atlanta", "falcons">>, id |-> "e6aa13a4"],
      [name |-> <<"new", "york", "giants">>, id |-> "04aa1c9d"],
      [name |-> <<"jacksonville", "jaguars">>, id |-> "f7ddd7fa"],
      [name |-> <<"new", "york", "jets">>, id |-> "5fee86ae"],
      [name |-> <<"detroit", "lions">>, id |-> "c5a59daa"],
      [name |-> <<"green", "bay", "packers">>, id |-> "a20471b4"],
      [name |-> <<"carolina", "panthers">>, id |-> "f14bf5cc"],
      [name |-> <<"new", "england", "patriots">>, id |-> "97354895"],
      [name |-> <<"las", "vegas", "raiders">>, id |-> "7d4fcc64"],
      [name |-> <<"los", "angeles", "rams">>, id |-> "2eff2a03"],
      [name |-> <<"baltimore", "ravens">>, id |-> "ebd87119"],
      [name |-> <<"new", "orleans", "saints">>, id |-> "0d855753"],
      [name |-> <<"seattle", "seahawks">>, id |-> "3d08af9e"],
      [name |-> <<"pittsburgh", "steelers">>, id |-> "cb2f9f1f"],
      [name |-> <<"team", "tbd">>, id |-> "23ed0bf0"],
      [name |-> <<"houston", "texans">>, id |-> "82d2d380"],
      [name |-> <<"tennessee", "titans">>, id |-> "d26a1ca5"],
      [name |-> <<"minnesota", "vikings">>, id |-> "33405046"]>>

\* ABBREVIATIONS of both nfl modules, in lower case.
ABBREVIATIONS ==
    <<[abbr |-> <<"ari">>, name |-> <<"arizona", "cardinals">>],
      [abbr |-> <<"atl">>, name |-> <<"atlanta", "falcons">>],
      [abbr |-> <<"bal">>, name |-> <<"baltimore", "ravens">>],
      [abbr |-> <<"buf">>, name |-> <<"buffalo", "bills">>],
      [abbr |-> <<"car">>, name |-> <<"carolina", "panthers">>],
      [abbr |-> <<"chi">>, name |-> <<"chicago", "bears">>],
      [abbr |-> <<"cin">>, name |-> <<"cincinnati", "bengals">>],
      [abbr |-> <<"cle">>, name |-> <<"cleveland", "browns">>],
      [abbr |-> <<"dal">>, name |-> <<"dallas", "cowboys">>],
      [abbr |-> <<"den">>, name |-> <<"denver", "broncos">>],
      [abbr |-> <<"det">>, name |-> <<"detroit", "lions">>],
      [abbr |-> <<"gb">>, name |-> <<"green", "bay", "packers">>],
      [abbr |-> <<"hou">>, name |-> <<"houston", "texans">>],
      [abbr |-> <<"ind">>, name |-> <<"indianapolis", "colts">>],
      [abbr |-> <<"jax">>, name |-> <<"jacksonville", "jaguars">>],
      [abbr |-> <<"kc">>, name |-> <<"kansas", "city", "chiefs">>],
      [abbr |-> <<"lv">>, name |-> <<"las", "vegas", "raiders">>],
      [abbr |-> <<"lac">>, name |-> <<"los", "angeles", "chargers">>],
      [abbr |-> <<"lar">>, name |-> <<"los", "angeles", "rams">>],
      [abbr |-> <<"mia">>, name |-> <<"miami", "dolphins">>],
      [abbr |-> <<"min">>, name |-> <<"minnesota", "vikings">>],
      [abbr |-> <<"ne">>, name |-> <<"new", "england", "patriots">>],
      [abbr |-> <<"no">>, name |-> <<"new", "orleans", "saints">>],
      [abbr |-> <<"nyg">>, name |-> <<"new", "york", "giants">>],
      [abbr |-> <<"nyj">>, name |-> <<"new", "york", "jets">>],
      [abbr |-> <<"phi">>, name |-> <<"philadelphia", "eagles">>],
      [abbr |-> <<"pit">>, name |-> <<"pittsburgh", "steelers">>],
      [abbr |-> <<"sf">>, name |-> <<"san", "francisco", "49ers">>],
      [abbr |-> <<"sea">>, name |-> <<"seattle", "seahawks">>],
      [abbr |-> <<"tb">>, name |-> <<"tampa", "bay", "buccaneers">>],
      [abbr |-> <<"ten">>, name |-> <<"tennessee", "titans">>],
      [abbr |-> <<"was">>, name |-> <<"washington", "commanders">>]>>

\* An id of NFL_TEAMS: a canonical UUID string in lower case.
TeamId(id) == Str(<<id>>, "lower", "hex32", "plain")

\* str.lower(): the text, whatever the case it was written in.
lower(x) == x.words

\* NFL_TEAMS[full_name] and `full_name in NFL_TEAMS`; "" when it is no key.
TeamIdOf(full_name) ==
    LET named == {j \in 1..Len(NFL_TEAMS) : NFL_TEAMS[j].name = full_name}
    IN  IF named = {} THEN "" ELSE NFL_TEAMS[CHOOSE j \in named : TRUE].id

\* for full_name, team_id in NFL_TEAMS.items(): the assignments to TEAM_LOOKUP
\* in order, for each team its full name and then its last word.
NameAssignments ==
    [i \in 1..(2 * Len(NFL_TEAMS)) |->
       LET team == NFL_TEAMS[(i + 1) \div 2]
       IN  [key |-> IF i % 2 = 1 THEN team.name
                    ELSE SubSeq(team.name, Len(team.name), Len(team.name)),
            value |-> team.id]]

\* for abbr, full_name in ABBREVIATIONS.items(): if full_name in NFL_TEAMS.
AbbreviationAssignments ==
    LET listed == SelectSeq(ABBREVIATIONS, LAMBDA a : TeamIdOf(a.name) # "")
    IN  [i \in 1..Len(listed) |->
           [key |-> listed[i].abbr, value |-> TeamIdOf(listed[i].name)]]

\* The dictionary as the sequence of its assignments.
TEAM_LOOKUP == NameAssignments \o AbbreviationAssignments

\* TEAM_LOOKUP.get(key): the value last assigned to the key; "" stands for
\* None.
LookupTeam(key) ==
    LET at == {i \in 1..Len(TEAM_LOOKUP) : TEAM_LOOKUP[i].key = key}
    IN  IF at = {} THEN ""
        ELSE TEAM_LOOKUP[CHOOSE i \in at : \A j \in at : j <= i].value

\* uuid.UUID(x) does not raise ValueError: urn prefix, braces and hyphens are
\* removed, 32 characters must remain, and int(hex, 16) must read them; int
\* also reads a sign or the prefix 0x before the digits.
UUID(x) == x.shape \in {"hex32", "sign and hex31", "0x and hex30"}

\* get_nfl_team_season_stats of src/agent1/nfl.py: the lookup first, then
\* uuid.UUID; the request is made by _make_request.
get_nfl_team_season_stats(x, o) ==
    LET found == LookupTeam(lower(x))
        resolved == IF found # "" THEN TeamId(found) ELSE x
    IN  IF found = "" /\ ~UUID(x)
        THEN [called |-> TRUE, requests |-> 0, raised |-> FALSE,
              status |-> "error", team_id |-> NoString]
        ELSE [called |-> TRUE, requests |-> 1,
              raised |-> make_request(o).raised # "none",
              status |-> make_request(o).status, team_id |-> resolved]

\* get_team_season_stats of src/nfl.py: uuid.UUID first, then the lookup; the
\* request is made with requests.get and the body wrapped.
get_team_season_stats(x, o) ==
    LET found == LookupTeam(lower(x))
        resolved == IF UUID(x) THEN x
                    ELSE IF found # "" THEN TeamId(found) ELSE NoString
    IN  IF resolved = NoString
        THEN [called |-> TRUE, requests |-> 0, raised |-> FALSE,
              status |-> "error", team_id |-> NoString]
        ELSE [called |-> TRUE, requests |-> 1, raised |-> FALSE,
              status |-> IF o.sent /\ o.http < 400 /\ o.json THEN "ok" ELSE "error",
              team_id |-> resolved]

Casings == {"lower", "upper", "title"}

\* The names the tables know: full names, last words, abbreviations.
KnownTexts ==
    {NFL_TEAMS[i].name : i \in 1..Len(NFL_TEAMS)}
    \cup {SubSeq(NFL_TEAMS[i].name, Len(NFL_TEAMS[i].name), Len(NFL_TEAMS[i].name)) :
            i \in 1..Len(NFL_TEAMS)}
    \cup {ABBREVIATIONS[i].abbr : i \in 1..Len(ABBREVIATIONS)}

\* Strings a model may pass as team_identifier: known names in any case,
\* names the tables do not know, and strings of UUID kind: the id of a team or
\* of none, wrapped or not, well-formed or not.
Identifiers ==
    {Str(t, c, "text", "plain") :
       t \in KnownTexts \cup {<< >>, <<"kansas">>, <<"kansas", "city", "chiefs", "fc">>},
       c \in Casings}
    \cup {Str(<<d>>, c, sh, w) :
            d \in {NFL_TEAMS[1].id, "00000000"}, c \in {"lower", "upper"},
            sh \in {"hex32", "hex31", "nonhex32", "sign and hex31", "0x and hex30"},
            w \in {"plain", "urn", "braces", "no hyphens"}}

InitTeams ==
    /\ ChatInit
    /\ endpoint = "agent1"
    /\ OthersIdle("teams")
    /\ team_identifier \in Identifiers
    /\ team_stats = [agent1 |-> NotCalled, root |-> NotCalled]

\* The agent1 tool is called with the identifier.
CallAgent1Stats ==
    /\ ~team_stats.agent1.called
    /\ \E o \in UpstreamOutcomes :
         team_stats' = [team_stats EXCEPT
                          !.agent1 = get_nfl_team_season_stats(team_identifier, o)]
    /\ UNCHANGED <<firstVars, mrVars, jobVars, team_identifier>>

\* The root tool is called with the identifier.
CallRootStats ==
    /\ ~team_stats.root.called
    /\ \E o \in UpstreamOutcomes :
         team_stats' = [team_stats EXCEPT
                          !.root = get_team_season_stats(team_identifier, o)]
    /\ UNCHANGED <<firstVars, mrVars, jobVars, team_identifier>>

NextTeams ==
    \/ CallAgent1Stats
    \/ CallRootStats

SpecTeams == InitTeams /\ [][NextTeams]_vars

\* ================================================ run_daily_research
NEWS_ENDPOINT == "/news"

BETTING_NEWS_ENDPOINT == "/betting-news"

\* What a POST to the research service can give: a 2xx response, a response
\* that raise_for_status refuses, or no response.
PostReplies == {"ok", "status 500", "connection error"}

InitJob ==
    /\ ChatInit
    /\ endpoint = "agent1"
    /\ OthersIdle("job")
    /\ job_pc = "idle"
    /\ job_posts = << >>

\* run_daily_research() is called.
StartJob ==
    /\ job_pc = "idle"
    /\ Len(job_posts) < MaxJobRuns
    /\ job_posts' = Append(job_posts, << >>)
    /\ job_pc' = "news"
    /\ UNCHANGED <<firstVars, mrVars, teamVars>>

\* requests.post(url) and raise_for_status(): on success the try block goes
\* on to `next`, on an exception the except clauses print and the function
\* returns.
Post(url, next) ==
    \E reply \in PostReplies :
      /\ job_posts' = [job_posts EXCEPT
                         ![Len(job_posts)] = Append(@, [url |-> url, reply |-> reply])]
      /\ job_pc' = IF reply = "ok" THEN next ELSE "idle"
      /\ UNCHANGED <<firstVars, mrVars, teamVars>>

PostNews == job_pc = "news" /\ Post(NEWS_ENDPOINT, "betting")

PostBettingNews == job_pc = "betting" /\ Post(BETTING_NEWS_ENDPOINT, "idle")

NextJob ==
    \/ StartJob
    \/ PostNews
    \/ PostBettingNews

SpecJob == InitJob /\ [][NextJob]_vars

\* ================================================================ claims
IsInitialChunkEvent(e) == e.type = "chunk" /\ e.src = 1

IsChunkEvent(e) == e.type = "chunk"

IsErrorEvent(e) == e.type = "error"

\* Indexes (into chunks1) of the initial-response chunks yielded so far.
InitialEmitted ==
    LET sel == SelectSeq(events, IsInitialChunkEvent)
    IN  [i \in 1..Len(sel) |-> sel[i].idx]

\* Indexes of the chunks of chs whose delta has content, in order.
ContentIndexes(chs) ==
    LET HasContent(i) == chs[i].content
    IN  SelectSeq([i \in 1..Len(chs) |-> i], HasContent)

IsPrefix(s, t) == Len(s) <= Len(t) /\ \A i \in 1..Len(s) : s[i] = t[i]

Registered(function_name) == function_name \in DOMAIN ToolRegistry(endpoint)

ExecutionsOf(k) == {i \in 1..Len(executed) : executed[i].call = k}

\* C1: in a streaming request the model is called at most twice, the second
\* time only if the initial response carried a tool call; every tool execution
\* happens after the first and before the second call, so tool calls of the
\* second response are never executed.
C1_AtMostTwoModelCalls ==
    mode = "stream" =>
      /\ Len(upstream) <= 2
      /\ Len(upstream) = 2 => tool_calls # << >>
      /\ \A i \in 1..Len(executed) :
           /\ executed[i].calls = 1
           /\ executed[i].call \in 1..Len(full_tool_calls)
      /\ pc \in {"recv2", "done"} /\ Len(upstream) = 2
           => Len(executed) <= Len(full_tool_calls)

C1_Witness ==
    /\ mode = "stream" /\ pc = "done" /\ raised = "none"
    /\ Len(upstream) = 2
    /\ executed # << >>
    /\ "tool_calls" \in Range(finalChunks)

\* C2 (as claimed): when a streaming response is complete, every chunk of the
\* initial response has been emitted, in the order received.
C2_AllInitialChunksEmitted ==
    (mode = "stream" /\ pc = "done")
      => InitialEmitted = [i \in 1..Len(chunks1) |-> i]

\* C2 (amended): the root endpoint emits every chunk of the initial response
\* as it is received, in order; agent1 emits none of them when the response
\* carries tool calls and otherwise, once the response is complete, exactly
\* its chunks with content, in the order received.
C2_InitialChunksEmitted ==
    mode = "stream" =>
      /\ endpoint = "root" => InitialEmitted = [i \in 1..Len(chunks1) |-> i]
      /\ endpoint = "agent1" =>
           /\ IsPrefix(InitialEmitted, ContentIndexes(chunks1))
           /\ tool_calls # << >> => InitialEmitted = << >>
           /\ (pc = "done" /\ raised = "none" /\ tool_calls = << >>)
                => InitialEmitted = ContentIndexes(chunks1)

C2_Witness ==
    /\ mode = "stream" /\ pc = "done" /\ endpoint = "agent1" /\ raised = "none"
    /\ Len(chunks1) = 2
    /\ Len(InitialEmitted) = 1

\* C3: the conversation sent in the second model call holds, for every tool
\* call listed in the assistant message, exactly one tool message with that
\* call's tool_call_id.
C3_EveryToolCallAnswered ==
    Len(upstream) = 2 =>
      LET sent == upstream[2]
      IN  \A i \in 1..Len(sent) :
            sent[i].role = "assistant" =>
              \A k \in 1..Len(sent[i].tool_calls) :
                Cardinality({j \in 1..Len(sent) :
                               /\ sent[j].role = "tool"
                               /\ sent[j].tool_call_id = sent[i].tool_calls[k].id}) = 1

\* C4 (as claimed): every SSE event is a serialized chunk or [DONE].
C4_OnlyChunksAndDone ==
    \A i \in 1..Len(events) : events[i].type \in {"chunk", "DONE"}

\* C4 (amended): every SSE event is a serialized chunk, the terminator [DONE],
\* the marker [STREAM_STARTED] (the first event and only the first) or, on the
\* error path only, the JSON object {"error": <exception text>}.
C4_EventPayloads ==
    \A i \in 1..Len(events) :
      /\ events[i].type \in {"STREAM_STARTED", "chunk", "error", "DONE"}
      /\ events[i].type = "STREAM_STARTED" <=> i = 1
      /\ events[i].type = "error" => (raised # "none" /\ events[i].text = raised)

C4_Witness ==
    /\ pc = "done" /\ mode = "stream"
    /\ \E i, j \in 1..Len(events) : events[i].type = "chunk" /\ events[j].type = "error"

\* C5: an exception that reaches the generator's except clause (model call,
\* stream iteration, tool-call reconstruction, and in the root endpoint tool
\* execution) produces exactly one error event carrying the exception text,
\* directly followed by [DONE]; no chunk follows the error event, and no error
\* event is emitted when nothing was raised.
C5_ErrorThenDone ==
    mode = "stream" =>
      /\ Len(SelectSeq(events, IsErrorEvent)) <= 1
      /\ raised = "none" => SelectSeq(events, IsErrorEvent) = << >>
      /\ \A i, j \in 1..Len(events) :
           (i < j /\ events[i].type = "error") => events[j].type # "chunk"
      /\ (pc = "done" /\ raised # "none") =>
           /\ Len(events) >= 2
           /\ events[Len(events) - 1].type = "error"
           /\ events[Len(events) - 1].text = raised
           /\ events[Len(events)].type = "DONE"

C5_Witness ==
    /\ pc = "done" /\ mode = "stream" /\ raised # "none"
    /\ Len(SelectSeq(events, IsChunkEvent)) >= 1
    /\ executed # << >>

\* C6: the registry is never changed, every executed function is the registry's
\* value for the name of the tool call it was executed for, and a tool call
\* whose name is no key of the registry executes nothing.
C6_OnlyRegisteredToolsExecuted ==
    /\ AVAILABLE_TOOLS = ToolRegistry(endpoint)
    /\ \A i \in 1..Len(executed) :
         LET function_name == full_tool_calls[executed[i].call].name
         IN  /\ Registered(function_name)
             /\ executed[i].fn = ToolRegistry(endpoint)[function_name]
    /\ \A k \in 1..Len(full_tool_calls) :
         ~Registered(full_tool_calls[k].name) => ExecutionsOf(k) = {}

C6_Witness ==
    /\ pc = "done" /\ mode = "stream" /\ raised = "none"
    /\ Len(upstream) = 2
    /\ \E k \in 1..Len(full_tool_calls) : ~Registered(full_tool_calls[k].name)
    /\ executed = << >>

\* The first response of the request asks for a registered tool.
RequestsRegisteredTool ==
    \/ mode = "nonstream" /\ nsToolRequested
    \/ mode = "stream" /\ \E i \in 1..Len(tool_calls) : Registered(tool_calls[i].name)

\* C7 (as claimed): every answered request, stream=false included, whose first
\* response asks for a registered tool has that tool executed and the model
\* called a second time.
C7_ToolRoundForEveryRequest ==
    (pc = "done" /\ RequestsRegisteredTool)
      => (executed # << >> /\ Len(upstream) = 2)

\* C7 (amended): a request with stream=true whose first response asks for a
\* registered tool with parseable arguments has that tool executed once and,
\* unless an exception ends the stream, the model called a second time before
\* the stream ends; a request with stream=false is answered after a single
\* model call without any tool being executed.
C7_ToolRoundOnlyWhenStreaming ==
    /\ (pc = "done" /\ mode = "stream" /\ raised = "none" /\ tool_calls # << >>) =>
         /\ Len(upstream) = 2
         /\ \A k \in 1..Len(full_tool_calls) :
              (Registered(full_tool_calls[k].name) /\ JsonValid(full_tool_calls[k].arguments))
                => Cardinality(ExecutionsOf(k)) = 1
    /\ mode \in {"nonstream", "nonstream_error"} =>
         (Len(upstream) = 1 /\ executed = << >>)

C7_Witness ==
    /\ pc = "done" /\ mode = "nonstream" /\ nsToolRequested
    /\ Len(upstream) = 1

\* C8: the first model call gets one system message built from the prompt
\* file followed by the last min(n, 10) of the request's n messages,
\* unchanged and in their order.
C8_FirstCallMessages ==
    Len(upstream) >= 1 =>
      LET sent == upstream[1]
          n == Len(body)
          k == IF n < 10 THEN n ELSE 10
      IN  /\ Len(sent) = 1 + k
          /\ sent[1].role = "system"
          /\ sent[1].content[1] = "system_prompt.txt"
          /\ \A j \in 1..k : sent[1 + j] = body[n - k + j]

C8_Witness ==
    /\ Len(upstream) >= 1
    /\ Len(body) = 11
    /\ upstream[1][2] = body[2]

\* The request's messages that pass the history limit.
KeptOfBody ==
    LET n == Len(body)
        k == IF n < 10 THEN n ELSE 10
    IN  [j \in 1..k |-> body[n - k + j]]

\* The prompt files rendered into the system prompt.
PromptFilesOnly ==
    IF endpoint = "agent1"
    THEN <<"system_prompt.txt", "current_date", "sports_state.json">>
    ELSE <<"system_prompt.txt", "current_date">>

\* C9 (as claimed): the messages of the first model call are determined by the
\* request body and the prompt files alone.
C9_NoStateBetweenRequests ==
    Len(upstream) >= 1 =>
      /\ upstream[1][1].content = PromptFilesOnly
      /\ Tail(upstream[1]) = KeptOfBody

\* C9 (amended): the messages of the first model call are determined by the
\* request body, the prompt files and, in agent1, the games that
\* NBA_SCHEDULE_CACHE holds when the request arrives, which are listed at the
\* end of the system prompt; in the root endpoint nothing of earlier requests
\* reaches them.
C9_OnlyScheduleCacheCarriesOver ==
    Len(upstream) >= 1 =>
      /\ Tail(upstream[1]) = KeptOfBody
      /\ upstream[1][1].content =
           PromptFilesOnly
           \o (IF endpoint = "agent1" /\ cacheAtAccept.has /\ cacheAtAccept.games # << >>
               THEN <<"last NBA schedule">> \o cacheAtAccept.games
               ELSE << >>)
      /\ endpoint = "root" => cacheAtAccept = EmptyCache

C9_Witness ==
    /\ endpoint = "agent1"
    /\ Len(upstream) >= 1
    /\ cacheAtAccept.has
    /\ upstream[1][1].content # PromptFilesOnly

C11_OncePerTtlWindow ==
    (last_call.made /\ last_call.prev >= 0) =>
      /\ last_call.at - last_call.prev < Ttl(fetcher) =>
           (last_call.hit /\ last_call.http = 0 /\ last_call.value = last_call.prev)
      /\ last_call.at - last_call.prev > Ttl(fetcher) =>
           (~last_call.hit /\ last_call.http = 1)

\* C11 (amended): the same, for every argument tuple whose entry is still in
\* the cache; an entry is dropped before its ttl has passed only by a call
\* that stores a new tuple while the cache holds maxsize (10, 128, 256) live
\* entries, the least recently used one going first, and the next call with a
\* dropped tuple fetches again.  get_nfl_current_week_schedule has a single
\* argument tuple and never loses its entry that way.
C11_OncePerTtlWindowUnlessDropped ==
    /\ (last_call.made /\ last_call.prev >= 0 /\ ~last_call.dropped) =>
         /\ last_call.at - last_call.prev < Ttl(fetcher) =>
              (last_call.hit /\ last_call.http = 0 /\ last_call.value = last_call.prev)
         /\ last_call.at - last_call.prev > Ttl(fetcher) =>
              (~last_call.hit /\ last_call.http = 1)
    /\ (last_call.made /\ last_call.dropped) => (~last_call.hit /\ last_call.http = 1)
    /\ last_call.popped # {} =>
         (~last_call.hit /\ last_call.live = MaxSize(fetcher)
            /\ last_call.popped \cap {links[i].key : i \in 1..Len(links)} = {})
    /\ fetcher = "get_nfl_current_week_schedule" => evicted = {}
    /\ Len(links) <= MaxSize(fetcher)

C11_Witness ==
    /\ last_call.made /\ ~last_call.hit /\ ~last_call.dropped
    /\ last_call.prev >= 0
    /\ last_call.at - last_call.prev > Ttl(fetcher)
    /\ fetcher = "get_daily_schedule"
    /\ Len(links) > 1

\* The last thing appended to the conversation is the result of a clear_caches
\* call that returned.
ClearedJustNow ==
    /\ messages # << >>
    /\ messages[Len(messages)].role = "tool"
    /\ messages[Len(messages)].name = "clear_caches"
    /\ messages[Len(messages)].content = <<"Caches cleared successfully.">>

\* Executions of the TTL-cached schedule fetcher that made an upstream request.
ScheduleFetches == {i \in 1..Len(executed) : TtlCached(executed[i].fn) /\ executed[i].http = 1}

RanOn(d) == \E i \in 1..Len(job_runs) : job_runs[i].date = d

\* C13: on every day through whose target minute (10:56:00 to 10:56:59) the
\* scheduler has been running, run_daily_research has been invoked by the
\* time that minute is over.
C13_RunsEveryDay ==
    \A d \in 0..(MaxDays - 1) : wall_clock >= TargetEnd(d) => RanOn(d)

\* C14: every invocation of run_daily_research is made at a check whose local
\* time has hour 10 and minute 56, no two invocations fall on the same
\* calendar date, and the date of the last invocation is remembered whether
\* the job succeeded or failed.
C14_OncePerDateAtTargetMinute ==
    /\ \A i \in 1..Len(job_runs) :
         job_runs[i].hour = 10 /\ job_runs[i].minute = 56
    /\ \A i, j \in 1..Len(job_runs) : i < j => job_runs[i].date < job_runs[j].date
    /\ job_runs # << >> => last_run_date = job_runs[Len(job_runs)].date
    /\ job_runs = << >> => last_run_date = -1

C14_Witness ==
    /\ Len(job_runs) = 2
    /\ ~job_runs[1].ok
    /\ job_runs[1].date = 0 /\ job_runs[2].date = 1
    /\ wall_clock > TargetEnd(1)

\* The script run for the last prompt is over.
PromptHandled == ui_pc \in {"idle", "crashed"} /\ ui_streams # << >>

\* Assistant messages appended since the last prompt was entered.
AppendedForPrompt == Len(session_messages) - ui_base - 1

NoErrorChunk(stream) == Range(stream) \cap {"error", "connection error"} = {}

\* C15 (as claimed): for a prompt whose reply is plain text or starts with a
\* tool call (and carries no error), one request has been sent to the proxy
\* and one assistant message has been appended.
C15_OneRequestOneMessage ==
    (PromptHandled /\ \A i \in 1..Len(ui_streams) : NoErrorChunk(ui_streams[i])) =>
      (Len(ui_streams) = 1 /\ AppendedForPrompt = 1)

\* C15 (amended): for a prompt whose reply does not start with a tool call one
\* request is sent; for one whose first chunk announces a tool call the same
\* payload is sent a second time and the second response is the one shown.
\* One assistant message is appended, unless the response shown carries the
\* proxy's error object, on which the script run ends with an exception and
\* appends none.
C15_RequestsAndMessagesPerPrompt ==
    /\ Len(ui_streams) <= 2
    /\ PromptHandled =>
         LET shown == ui_streams[Len(ui_streams)]
         IN  /\ Len(ui_streams) =
                  IF ui_streams[1] # << >> /\ ui_streams[1][1] = "tool" THEN 2 ELSE 1
             /\ ui_pc = "crashed" <=> "error" \in Range(shown)
             /\ AppendedForPrompt = IF "error" \in Range(shown) THEN 0 ELSE 1
             /\ session_messages[ui_base + 1].role = "user"
             /\ AppendedForPrompt = 1 =>
                  session_messages[Len(session_messages)].role = "assistant"

C15_Witness ==
    /\ ui_pc = "idle"
    /\ Len(ui_streams) = 2
    /\ NoErrorChunk(ui_streams[1]) /\ NoErrorChunk(ui_streams[2])
    /\ AppendedForPrompt = 1
    /\ session_messages[Len(session_messages)].content = <<"text">>

\* The handler has finished with the last update, by returning or by raising.
UpdateHandled == tg_pc \in {"idle", "raised"} /\ tg_sent # << >>

\* C16: once the handler has finished with a text message, it has sent one
\* request to the proxy and one reply to the chat, whatever the proxy returned.
C16_OneRequestOneReply ==
    UpdateHandled =>
      /\ tg_requests = 1
      /\ \A u \in 1..Len(tg_sent) : Len(tg_sent[u]) = 1

\* The calls the model issued with rc_deltas.
IssuedIndexes == {rc_deltas[k].index : k \in 1..Len(rc_deltas)}

\* The argument text of call i: its own fragments in arrival order.
RECURSIVE OwnFragments(_, _)
OwnFragments(ds, i) ==
    IF ds = << >> THEN << >>
    ELSE (IF Head(ds).index = i THEN Head(ds).arguments ELSE << >>)
         \o OwnFragments(Tail(ds), i)

Faithful(result) ==
    /\ result.ok
    /\ Len(result.calls) = Cardinality(IssuedIndexes)
    /\ \A i \in IssuedIndexes :
         /\ result.calls[i + 1].name = IssuedName(i)
         /\ result.calls[i + 1].arguments = OwnFragments(rc_deltas, i)

\* C17: the reconstruction has one entry per tool call the model issued, each
\* with the call's name and, as its argument string, the concatenation in
\* arrival order of the fragments that carry the call's index: for every
\* interleaving, and also when a first delta carries no id.
C17_ReconstructionFaithful ==
    /\ rc_proxy.done => Faithful(rc_proxy)
    /\ rc_cli.done => Faithful(rc_cli)

\* Position in full_tool_calls of the call a tool message answers (0: none).
AnsweredCall(m) ==
    IF \E k \in 1..Len(full_tool_calls) : full_tool_calls[k].id = m.tool_call_id
    THEN CHOOSE k \in 1..Len(full_tool_calls) : full_tool_calls[k].id = m.tool_call_id
    ELSE 0

\* C18: the second model call is sent the messages of the first call,
\* unchanged, then one assistant message listing all reconstructed tool calls,
\* then tool messages only, in the order of the tool calls; the tools ran in
\* that order and each of them before the second call was issued.
C18_SecondCallMessages ==
    /\ Len(upstream) = 2 =>
         LET first == upstream[1]
             second == upstream[2]
             n == Len(first)
         IN  /\ Len(second) > n
             /\ SubSeq(second, 1, n) = first
             /\ second[n + 1] = [role |-> "assistant", content |-> << >>,
                                 tool_call_id |-> 0, name |-> "",
                                 tool_calls |-> full_tool_calls]
             /\ \A k \in (n + 2)..Len(second) :
                  /\ second[k].role = "tool"
                  /\ AnsweredCall(second[k]) > 0
                  /\ second[k].name = full_tool_calls[AnsweredCall(second[k])].name
                  /\ k > n + 2 => AnsweredCall(second[k - 1]) < AnsweredCall(second[k])
    /\ \A k \in 1..Len(executed) :
         /\ executed[k].calls = 1
         /\ k > 1 => executed[k - 1].call < executed[k].call

C18_Witness ==
    /\ Len(upstream) = 2
    /\ Len(full_tool_calls) = MaxToolCalls
    /\ Len(executed) = MaxToolCalls
    /\ Len(upstream[2]) = Len(upstream[1]) + 1 + MaxToolCalls

\* The tool messages appended for the call at position k of full_tool_calls.
ToolMessagesFor(k) ==
    {j \in 1..Len(messages) :
       /\ messages[j].role = "tool"
       /\ messages[j].tool_call_id = full_tool_calls[k].id}

Handled(k) == full_tool_calls[k].name \in DOMAIN AVAILABLE_TOOLS

\* Handled calls of agent1 whose execution raised: the argument string is no
\* JSON (the empty string too), or the tool function raised.
Failing(k) ==
    /\ Handled(k)
    /\ \/ full_tool_calls[k].arguments # <<"a", "b">>
       \/ \E e \in 1..Len(executed) : executed[e].call = k /\ executed[e].raised

\* C19: in agent1 a tool call whose argument string is no JSON (the empty
\* string included) or whose function raises gets one tool message with status
\* error; the loop goes on with the remaining calls, so that when the second
\* model call is made every registered call has its tool message, and the
\* second model call is made whenever the tool loop was entered.
C19_ToolErrorsBecomeToolMessages ==
    /\ [](endpoint = "agent1" =>
            /\ raised \notin {"json error", "tool raised"}
            /\ \A k \in 1..tcIdx :
                 Failing(k) =>
                   /\ Cardinality(ToolMessagesFor(k)) = 1
                   /\ \A j \in ToolMessagesFor(k) : Head(messages[j].content) = "error"
            /\ Len(upstream) = 2 =>
                 /\ tcIdx = Len(full_tool_calls)
                 /\ \A k \in 1..Len(full_tool_calls) :
                      Handled(k) => Cardinality(ToolMessagesFor(k)) = 1)
    /\ (endpoint = "agent1" /\ pc = "tools") ~> (Len(upstream) = 2)

C19_Witness ==
    /\ endpoint = "agent1"
    /\ Len(upstream) = 2
    /\ Len(full_tool_calls) = MaxToolCalls
    /\ Handled(1) /\ full_tool_calls[1].arguments = << >>
    /\ \E e \in 1..Len(executed) : executed[e].call = 2 /\ executed[e].raised

\* The step handles a get_nba_daily_schedule tool call of an agent1 request.
ScheduleCallHandled ==
    /\ endpoint = "agent1"
    /\ pc = "tools"
    /\ tcIdx' = tcIdx + 1
    /\ full_tool_calls[tcIdx + 1].name = "get_nba_daily_schedule"

\* The games listed in the content of a tool message.
GamesIn(content) ==
    LET at == {i \in 1..Len(content) : content[i] = "games"}
    IN  IF at = {} THEN << >>
        ELSE SubSeq(content, (CHOOSE i \in at : TRUE) + 1, Len(content))

\* C20: NBA_SCHEDULE_CACHE starts empty; every get_nba_daily_schedule tool
\* call leaves it empty or holding exactly the games that call returned, and
\* every other step leaves it as it was or empty. So the cache never holds
\* the games of a lookup older than the most recent one.
C20_CacheHoldsLastLookup ==
    [][IF ScheduleCallHandled
       THEN \/ NBA_SCHEDULE_CACHE' = EmptyCache
            \/ /\ NBA_SCHEDULE_CACHE'.has
               /\ messages'[Len(messages')].role = "tool"
               /\ "games" \in Range(messages'[Len(messages')].content)
               /\ NBA_SCHEDULE_CACHE'.games = GamesIn(messages'[Len(messages')].content)
       ELSE NBA_SCHEDULE_CACHE' \in {NBA_SCHEDULE_CACHE, EmptyCache}]_vars

\* The failures the claim lists: no response (connection error, timeout), a
\* status that is not 2xx, a body with a message and a code other than 200, a
\* body that is no JSON.
UpstreamFailed(o) ==
    \/ ~o.sent
    \/ o.http >= 400
    \/ ~o.json
    \/ o.body = "message and code 403"

\* C21: for every upstream failure (request failed or timed out, status not
\* 2xx, body with a message and a code other than 200, body that is no JSON)
\* _make_request does not raise and returns a dictionary with status error
\* and a message.
C21_FailuresReturnedAsValues ==
    \A i \in 1..Len(mr_results) :
      UpstreamFailed(mr_results[i].upstream) =>
        /\ mr_results[i].result.raised = "none"
        /\ mr_results[i].result.isDict
        /\ mr_results[i].result.status = "error"
        /\ mr_results[i].result.message # ""

C21_Witness ==
    /\ Len(mr_results) = MaxRequests
    /\ \E i, j, k \in 1..Len(mr_results) :
         /\ ~mr_results[i].upstream.sent
         /\ mr_results[j].upstream.http = 200 /\ ~mr_results[j].upstream.json
         /\ mr_results[k].upstream.body = "message and code 403"
         /\ mr_results[k].result.status = "error"

\* The team a name, last word or abbreviation stands for, read off the tables.
NamedTeams(x) ==
    {NFL_TEAMS[i].id : i \in {j \in 1..Len(NFL_TEAMS) :
        \/ x.words = NFL_TEAMS[j].name
        \/ x.words = <<NFL_TEAMS[j].name[Len(NFL_TEAMS[j].name)]>>
        \/ \E a \in 1..Len(ABBREVIATIONS) :
             /\ ABBREVIATIONS[a].abbr = x.words
             /\ ABBREVIATIONS[a].name = NFL_TEAMS[j].name}}

IsTeamName(x) == x.shape = "text" /\ NamedTeams(x) # {}

\* 32 hexadecimal digits, with or without hyphens, braces or the urn prefix.
IsUuidString(x) == x.shape = "hex32"

\* C22: in both nfl modules a team name, last word or abbreviation in any
\* letter case resolves to that team's id, and a valid UUID string to itself,
\* with one upstream request; every other identifier gives a status-error
\* result and no upstream request; the two modules resolve to the same id.
C22_TeamIdentifiersResolved ==
    \A m \in {"agent1", "root"} :
      team_stats[m].called =>
        /\ IsTeamName(team_identifier) =>
             /\ team_stats[m].requests = 1
             /\ \E id \in NamedTeams(team_identifier) :
                  team_stats[m].team_id = [words |-> <<id>>, casing |-> "lower",
                                           shape |-> "hex32", wrap |-> "plain"]
        /\ IsUuidString(team_identifier) =>
             /\ team_stats[m].requests = 1
             /\ team_stats[m].team_id = team_identifier
        /\ ~IsTeamName(team_identifier) /\ ~IsUuidString(team_identifier) =>
             /\ team_stats[m].requests = 0
             /\ team_stats[m].status = "error"
        /\ team_stats.agent1.called /\ team_stats.root.called =>
             team_stats.agent1.team_id = team_stats.root.team_id

\* The invocations of run_daily_research that have returned.
ReturnedRuns ==
    {r \in 1..Len(job_posts) : r < Len(job_posts) \/ job_pc = "idle"}

\* C23: every invocation of run_daily_research sends one POST to /news and
\* one POST to /betting-news, whether or not the first of them succeeds.
C23_BothEndpointsTriggered ==
    \A r \in ReturnedRuns :
      /\ Len(job_posts[r]) = 2
      /\ job_posts[r][1].url = "/news"
      /\ job_posts[r][2].url = "/betting-news"

\* C24: pressing Clear Chat History leaves the single welcome message in the
\* session's history, whatever it held before.
C24_ClearLeavesWelcomeOnly ==
    [][ClearChatHistory =>
         session_messages' = <<[role |-> "assistant", content |-> <<"Welcome">>]>>]_vars

EventsOfType(t) == {i \in 1..Len(events) : events[i].type = t}

\* C25: a streaming response has exactly one [STREAM_STARTED] event, its first
\* event, and when the generator has finished exactly one [DONE] event, its
\* last event: after a plain answer, after a tool round and after an
\* exception raised anywhere in the generator.
C25_StartedFirstDoneLast ==
    mode = "stream" =>
      /\ EventsOfType("STREAM_STARTED") = (IF pc = "start" THEN {} ELSE {1})
      /\ EventsOfType("DONE") = (IF pc = "done" THEN {Len(events)} ELSE {})
      /\ pc = "done" => Len(events) >= 2

C25_Witness ==
    /\ mode = "stream" /\ pc = "done"
    /\ Len(upstream) = 2
    /\ raised = "stream failed"
    /\ finalChunks # << >>
    /\ events[Len(events)].type = "DONE"
====
